---- MODULE Spec2Model ----
(***************************************************************************)
(* Model of the watch-history store (StorageProvider) and of the           *)
(* statistics aggregator (StatsService.computeWrapped) of sidetrack.      *)
(*                                                                         *)
(* Representation of JavaScript values:                                    *)
(*   - an ISO timestamp is [k |-> "iso", t |-> hours since                 *)
(*     2026-01-01T00:00:00Z]; every timestamp of the model is a whole      *)
(*     hour, so getTime() differences divided by one hour are exact;       *)
(*     the empty string is [k |-> "empty"], a string Date cannot parse     *)
(*     is [k |-> "bad"];                                                   *)
(*   - an episode rating (0, 0.5, .. 5) is kept doubled (field rating2,    *)
(*     0..10); a movie rating is the integer 0..10 of the source;          *)
(*   - a value rounded to one decimal is kept in tenths;                   *)
(*   - a Record<string, number> whose iteration order matters is a         *)
(*     sequence of [key, count] in insertion order; a Record<number, ..>   *)
(*     is iterated in ascending key order, as JavaScript does;             *)
(*   - null is Null.                                                       *)
(***************************************************************************)
EXTENDS Integers, Sequences, FiniteSets, TLC

VARIABLES
    watchedMovies,   \* @sidetrack_watched_movies: <<[key, entry]>> in insertion order
    watched,         \* @sidetrack_watched: episodeId -> WatchedEpisode
    favoriteMovies,  \* @sidetrack_favorite_movies: set of movieId
    favorites,       \* @sidetrack_favorites: set of episodeId
    tz,              \* the device's offset from UTC, in hours
    stats,           \* WrappedScreen's stats: NoStats, Threw or a WrappedStats
    given,           \* the arrays computeWrapped worked on, as they are after the call
    activeCount,     \* tmdb service: the limiter's counter
    queue,           \* tmdb service: the resolvers of the callers the limiter holds back
    calls,           \* the getIMDbEpisodeRating calls: caller -> where the call stands
    cache,           \* tmdb service: cache key -> entry
    now,             \* Date.now(), in minutes
    lookups,         \* the getMovieDetails calls: caller -> where the call stands
    tasks            \* storage mutations between their read and their write

storeVars == <<watchedMovies, watched, favoriteMovies, favorites, tz, stats, given>>
limiterVars == <<activeCount, queue, calls>>
cacheVars == <<cache, now, lookups>>
vars == <<storeVars, limiterVars, cacheVars, tasks>>

\* the tmdb service untouched, and no storage mutation under way
Quiet ==
    /\ activeCount = 0
    /\ queue = <<>>
    /\ calls = <<>>
    /\ cache = <<>>
    /\ now = 0
    /\ lookups = <<>>
    /\ tasks = <<>>

Null == [isNull |-> TRUE]
NoStats == [status |-> "none"]
Threw == [status |-> "threw"]

\* Bounds of the model: how many entries the two collections may hold.
MaxMovies == 5
MaxEpisodes == 12

------------------------------------------------------------------------------
(* Generic helpers *)

Range(s) == {s[i] : i \in 1..Len(s)}

Max2(a, b) == IF a >= b THEN a ELSE b

RECURSIVE SumSeq(_)
SumSeq(s) == IF s = <<>> THEN 0 ELSE Head(s) + SumSeq(Tail(s))

RECURSIVE MapField(_, _)
\* the sequence of the integers f(s[i]) for the three numeric fields used below
MapField(s, f) ==
    IF s = <<>> THEN <<>>
    ELSE << CASE f = "runtime" -> Head(s).runtime
              [] f = "rating"  -> Head(s).rating
              [] f = "rating2" -> Head(s).rating2 >> \o MapField(Tail(s), f)

\* Math.ceil(n / d) and Math.round(n / d) for n >= 0, d > 0 (round half up)
CeilDiv(n, d) == (n + d - 1) \div d
RoundDiv(n, d) == (2 * n + d) \div (2 * d)

RECURSIVE InsertByKey(_, _)
\* x goes after every element whose key is <= x.k: with left-to-right insertion
\* this is a stable ascending sort, as Array.prototype.sort is
InsertByKey(sorted, x) ==
    IF sorted = <<>> THEN <<x>>
    ELSE IF Head(sorted).k <= x.k THEN <<Head(sorted)>> \o InsertByKey(Tail(sorted), x)
    ELSE <<x>> \o sorted

RECURSIVE StableSortAsc(_)
StableSortAsc(s) ==
    IF s = <<>> THEN <<>>
    ELSE InsertByKey(StableSortAsc(SubSeq(s, 1, Len(s) - 1)), s[Len(s)])

Unkey(s) == [i \in 1..Len(s) |-> s[i].v]

\* sort((a, b) => b.k - a.k): stable, descending
SortDescBy(keyed) == Unkey(StableSortAsc([i \in 1..Len(keyed) |-> [k |-> 0 - keyed[i].k, v |-> keyed[i].v]]))

\* slice(0, n) and slice(-n)
SliceFirst(s, n) == SubSeq(s, 1, IF Len(s) < n THEN Len(s) ELSE n)
SliceLast(s, n) == SubSeq(s, IF Len(s) < n THEN 1 ELSE Len(s) - n + 1, Len(s))
Reverse(s) == [i \in 1..Len(s) |-> s[Len(s) + 1 - i]]

------------------------------------------------------------------------------
(* Dates *)

Iso(t) == [k |-> "iso", t |-> t]
EmptyDate == [k |-> "empty", t |-> 0]
BadDate == [k |-> "bad", t |-> 0]

\* truthiness of the watchedDate string
Truthy(d) == d.k # "empty"
\* whether new Date(d) is a valid date
Parsable(d) == d.k = "iso"

HoursPerDay == 24
DaysPerWeek == 7

\* Date.prototype.getTime(), in hours
getTime(d) == d.t

DaysInMonth == <<31, 28, 31, 30, 31, 30, 31, 31, 30, 31, 30, 31>>

RECURSIVE MonthDayFrom(_, _)
\* the month and day of month of the given 0-based day of 2026, counting from month m
MonthDayFrom(m, n) ==
    IF n < DaysInMonth[m] THEN [month |-> m, day |-> n + 1]
    ELSE MonthDayFrom(m + 1, n - DaysInMonth[m])

\* the calendar date of an hour count
Civil(h) == LET md == MonthDayFrom(1, h \div HoursPerDay)
            IN [year |-> 2026, month |-> md.month, day |-> md.day]

RECURSIVE DaysBefore(_)
DaysBefore(m) == IF m = 1 THEN 0 ELSE DaysInMonth[m - 1] + DaysBefore(m - 1)

\* new Date("YYYY-MM-DD").getTime(): midnight UTC of that date, in hours
ParseDateKey(key) == (DaysBefore(key.month) + key.day - 1) * HoursPerDay

\* lexicographic order of the "YYYY-MM-DD" strings
DateKeyOrd(key) == (key.year * 100 + key.month) * 100 + key.day

\* new Date(dateStr).toISOString().split('T')[0]: the UTC calendar date
getDateKey(d) == Civil(getTime(d))

\* the year and month read with getUTCFullYear and getUTCMonth
getMonthKeyUTC(d, zone) == LET c == Civil(getTime(d))
                           IN [year |-> c.year, month |-> c.month]

\* `${d.getFullYear()}-${month}`: the year and month in local time
getMonthKey(d, zone) == LET c == Civil(getTime(d) + zone)
                        IN [year |-> c.year, month |-> c.month]

MonthNames == <<"Jan", "Feb", "Mar", "Apr", "May", "Jun", "Jul", "Aug", "Sep", "Oct", "Nov", "Dec">>
getMonthName(key) == [name |-> MonthNames[key.month], year |-> key.year]

DayNames == <<"Sunday", "Monday", "Tuesday", "Wednesday", "Thursday", "Friday", "Saturday">>
\* 2026-01-01 is a Thursday
getDayOfWeek(d, zone) == DayNames[((4 + ((getTime(d) + zone) \div HoursPerDay)) % DaysPerWeek) + 1]

------------------------------------------------------------------------------
(* Entries (src/types) *)

\* a WatchedMovie; posterPath, backdropPath and overview are never read by the aggregator
Movie(id, title, rating, date, runtime, releaseDate, genres) ==
    [movieId |-> id, title |-> title, rating |-> rating, watchedDate |-> date,
     runtime |-> runtime, releaseDate |-> releaseDate, genres |-> genres, review |-> <<>>]

\* a WatchedEpisode; an absent optional field is "", <<>>, FALSE or 0
Episode(id, seriesId, seriesName, season, number, rating2, date, liked, review, runtime, genres, tags) ==
    [episodeId |-> id, seriesId |-> seriesId, seriesName |-> seriesName,
     seasonNumber |-> season, episodeNumber |-> number, rating2 |-> rating2,
     watchedDate |-> date, liked |-> liked, review |-> review, runtime |-> runtime,
     genres |-> genres, tags |-> tags]

------------------------------------------------------------------------------
(* StorageProvider: the read accessors *)

\* (a, b) => new Date(b.watchedDate).getTime() - new Date(a.watchedDate).getTime();
\* NaN (an unparsable date on either side) compares as 0
CompareByDateDesc(a, b) ==
    IF Parsable(a.watchedDate) /\ Parsable(b.watchedDate)
    THEN getTime(b.watchedDate) - getTime(a.watchedDate)
    ELSE 0

RECURSIVE InsertByDateDesc(_, _)
InsertByDateDesc(sorted, x) ==
    IF sorted = <<>> THEN <<x>>
    ELSE IF CompareByDateDesc(Head(sorted), x) <= 0
         THEN <<Head(sorted)>> \o InsertByDateDesc(Tail(sorted), x)
         ELSE <<x>> \o sorted

RECURSIVE SortByDateDesc(_)
\* the stable sort of the accessors; with unparsable dates the comparator is
\* inconsistent and the order is the one a linear insertion sort gives
SortByDateDesc(s) ==
    IF s = <<>> THEN <<>>
    ELSE InsertByDateDesc(SortByDateDesc(SubSeq(s, 1, Len(s) - 1)), s[Len(s)])

RECURSIVE AscendingSeq(_)
\* the elements of a finite set of integers in ascending order (integer keys of an object)
AscendingSeq(S) ==
    IF S = {} THEN <<>>
    ELSE LET m == CHOOSE x \in S : \A y \in S : x <= y
         IN <<m>> \o AscendingSeq(S \ {m})

getWatchedMovies == SortByDateDesc([i \in 1..Len(watchedMovies) |-> watchedMovies[i].entry])

getAllWatchedEpisodes ==
    LET ids == AscendingSeq(DOMAIN watched)
    IN SortByDateDesc([i \in 1..Len(ids) |-> watched[ids[i]]])

getAllFavoriteMovies == AscendingSeq(favoriteMovies)

getAllFavorites == AscendingSeq(favorites)

------------------------------------------------------------------------------
(* StatsService: helpers *)

WatchedDates(s) == [i \in 1..Len(s) |-> s[i].watchedDate]

HasKey(map, key) == \E i \in 1..Len(map) : map[i].key = key
KeyIndex(map, key) == CHOOSE i \in 1..Len(map) : map[i].key = key

RECURSIVE CountKeys(_, _)
\* keys.forEach(key => { map[key] = (map[key] || 0) + 1 }) on an object that keeps
\* its keys in insertion order
CountKeys(map, keys) ==
    IF keys = <<>> THEN map
    ELSE IF HasKey(map, Head(keys))
         THEN CountKeys([map EXCEPT ![KeyIndex(map, Head(keys))].count = @ + 1], Tail(keys))
         ELSE CountKeys(Append(map, [key |-> Head(keys), count |-> 1]), Tail(keys))

\* Object.entries(map).sort((a, b) => b[1] - a[1])
ByCountDesc(map) == SortDescBy([i \in 1..Len(map) |-> [k |-> map[i].count, v |-> map[i]]])

CountOf(map, key) == IF HasKey(map, key) THEN map[KeyIndex(map, key)].count ELSE 0

RECURSIVE StreakLoopNoReset(_, _, _, _)
\* the loop without its else branch: currentStreak is never set back to 1
StreakLoopNoReset(uniqueDays, i, currentStreak, maxStreak) ==
    IF i > Len(uniqueDays) THEN maxStreak
    ELSE LET diffHours == ParseDateKey(uniqueDays[i]) - ParseDateKey(uniqueDays[i - 1])
             diffDays == RoundDiv(diffHours, HoursPerDay)
         IN IF diffDays = 1
            THEN StreakLoopNoReset(uniqueDays, i + 1, currentStreak + 1, Max2(maxStreak, currentStreak + 1))
            ELSE StreakLoopNoReset(uniqueDays, i + 1, currentStreak, maxStreak)

RECURSIVE StreakLoop(_, _, _, _)
\* the for loop of computeStreak, from index i on
StreakLoop(uniqueDays, i, currentStreak, maxStreak) ==
    IF i > Len(uniqueDays) THEN maxStreak
    ELSE LET diffHours == ParseDateKey(uniqueDays[i]) - ParseDateKey(uniqueDays[i - 1])
             diffDays == RoundDiv(diffHours, HoursPerDay)
         IN IF diffDays = 1
            THEN StreakLoop(uniqueDays, i + 1, currentStreak + 1, Max2(maxStreak, currentStreak + 1))
            ELSE StreakLoop(uniqueDays, i + 1, 1, maxStreak)

\* computeStreak without its first line: maxStreak starts at 1 whatever the dates
computeStreakNoGuard(dates) ==
    LET seen == CountKeys(<<>>, [i \in 1..Len(dates) |-> getDateKey(dates[i])])
        uniqueDays == Unkey(StableSortAsc([i \in 1..Len(seen) |->
                          [k |-> DateKeyOrd(seen[i].key), v |-> seen[i].key]]))
    IN StreakLoop(uniqueDays, 2, 1, 1)

computeStreak(dates) ==
    IF Len(dates) = 0 THEN 0
    ELSE LET seen == CountKeys(<<>>, [i \in 1..Len(dates) |-> getDateKey(dates[i])])
             uniqueDays == Unkey(StableSortAsc([i \in 1..Len(seen) |->
                               [k |-> DateKeyOrd(seen[i].key), v |-> seen[i].key]]))
         IN StreakLoop(uniqueDays, 2, 1, 1)

Truthful(review) == Len(review) > 0

\* the label, emoji (by name) and description each return statement carries
PersonalityOf(label) ==
    CASE label = "The Newcomer" ->
            [label |-> label, emoji |-> "seedling",
             description |-> "You're just getting started! Log some watches and come back."]
      [] label = "The Binger" ->
            [label |-> label, emoji |-> "television",
             description |-> "You live for the next episode. TV shows are your comfort zone and you can't hit 'Next' fast enough."]
      [] label = "The Critic" ->
            [label |-> label, emoji |-> "performing arts",
             description |-> "Not easily impressed. You have high standards and aren't afraid to rate honestly."]
      [] label = "The Enthusiast" ->
            [label |-> label, emoji |-> "star-struck",
             description |-> "You love almost everything you watch! Your positive energy is contagious."]
      [] label = "The Explorer" ->
            [label |-> label, emoji |-> "compass",
             description |-> "Always diving into new genres. Your taste is eclectic and your watchlist is diverse."]
      [] label = "The Reviewer" ->
            [label |-> label, emoji |-> "writing hand",
             description |-> "You don't just watch - you reflect. Your reviews help you process what you've seen."]
      [] label = "The Marathon Runner" ->
            [label |-> label, emoji |-> "runner",
             description |-> "Hundreds of hours watched. You've turned watching into an endurance sport."]
      [] label = "The Cinephile" ->
            [label |-> label, emoji |-> "clapper board",
             description |-> "Movies are your thing. You appreciate the art of a complete story in one sitting."]
      [] label = "The Balanced Viewer" ->
            [label |-> label, emoji |-> "balance scale",
             description |-> "A healthy mix of movies and shows. You enjoy the best of both worlds."]

\* the conditions of the if statements; partialStats carries topGenres and
\* totalHoursWatched (in tenths of an hour)
personalityConditions(partialStats, movies, episodes) ==
    LET totalEntries == Len(movies) + Len(episodes)
        sumM == SumSeq(MapField(movies, "rating"))
        sumE2 == SumSeq(MapField(episodes, "rating2"))
        \* avgRating = aN / aD, epAvg = eN / eD, combinedAvg = cN / cD
        aN == IF Len(movies) > 0 THEN sumM ELSE 0
        aD == IF Len(movies) > 0 THEN Len(movies) ELSE 1
        eN == IF Len(episodes) > 0 THEN sumE2 ELSE 0
        eD == IF Len(episodes) > 0 THEN 2 * Len(episodes) ELSE 1
        cN == aN * eD + eN * aD
        cD == aD * eD * (IF Len(movies) > 0 /\ Len(episodes) > 0 THEN 2 ELSE 1)
        reviewCount == Len(SelectSeq(movies, LAMBDA m : Truthful(m.review)))
                       + Len(SelectSeq(episodes, LAMBDA e : Truthful(e.review)))
    IN [newcomer   |-> totalEntries = 0,
        binger     |-> Len(episodes) > Len(movies) * 3,
        critic     |-> 2 * cN < 5 * cD /\ totalEntries > 10,
        enthusiast |-> cN > 4 * cD /\ totalEntries > 10,
        explorer   |-> Len(partialStats.topGenres) > 5,
        reviewer   |-> 10 * reviewCount > 3 * totalEntries,
        marathon   |-> partialStats.totalHoursWatched > 2000,
        cinephile  |-> Len(movies) > Len(episodes)]

\* the cascade with the genre rule tried before the episode rule
determinePersonalityExplorerFirst(partialStats, movies, episodes) ==
    LET c == personalityConditions(partialStats, movies, episodes)
    IN PersonalityOf(IF c.newcomer THEN "The Newcomer"
                     ELSE IF c.explorer THEN "The Explorer"
                     ELSE IF c.binger THEN "The Binger"
                     ELSE IF c.critic THEN "The Critic"
                     ELSE IF c.enthusiast THEN "The Enthusiast"
                     ELSE IF c.reviewer THEN "The Reviewer"
                     ELSE IF c.marathon THEN "The Marathon Runner"
                     ELSE IF c.cinephile THEN "The Cinephile"
                     ELSE "The Balanced Viewer")

\* the cascade without the early return on an empty input
determinePersonalityNoNewcomer(partialStats, movies, episodes) ==
    LET c == personalityConditions(partialStats, movies, episodes)
    IN PersonalityOf(IF c.binger THEN "The Binger"
                     ELSE IF c.critic THEN "The Critic"
                     ELSE IF c.enthusiast THEN "The Enthusiast"
                     ELSE IF c.explorer THEN "The Explorer"
                     ELSE IF c.reviewer THEN "The Reviewer"
                     ELSE IF c.marathon THEN "The Marathon Runner"
                     ELSE IF c.cinephile THEN "The Cinephile"
                     ELSE "The Balanced Viewer")

determinePersonality(partialStats, movies, episodes) ==
    LET c == personalityConditions(partialStats, movies, episodes)
    IN PersonalityOf(IF c.newcomer THEN "The Newcomer"
                     ELSE IF c.binger THEN "The Binger"
                     ELSE IF c.critic THEN "The Critic"
                     ELSE IF c.enthusiast THEN "The Enthusiast"
                     ELSE IF c.explorer THEN "The Explorer"
                     ELSE IF c.reviewer THEN "The Reviewer"
                     ELSE IF c.marathon THEN "The Marathon Runner"
                     ELSE IF c.cinephile THEN "The Cinephile"
                     ELSE "The Balanced Viewer")

------------------------------------------------------------------------------
(* StatsService.computeWrapped: volume and ratings *)

\* [...movies.map(m => m.watchedDate), ...episodes.map(e => e.watchedDate)].filter(Boolean)
allDatesOf(movies, episodes) == SelectSeq(WatchedDates(movies) \o WatchedDates(episodes), Truthy)

\* Math.round((movieHours + episodeHours) * 10) / 10, in tenths: minutes / 60 * 10
totalHoursWatchedOf(movies, episodes) ==
    RoundDiv(SumSeq(MapField(movies, "runtime")) + SumSeq(MapField(episodes, "runtime")), 6)

RECURSIVE ReduceLongest(_, _)
ReduceLongest(prev, rest) ==
    IF rest = <<>> THEN prev
    ELSE ReduceLongest(IF Head(rest).runtime > prev.runtime THEN Head(rest) ELSE prev, Tail(rest))

longestMovieOf(movies) ==
    IF Len(movies) > 0
    THEN LET m == ReduceLongest(Head(movies), Tail(movies)) IN [title |-> m.title, runtime |-> m.runtime]
    ELSE Null

dayCountsOf(allDates) == CountKeys(<<>>, [i \in 1..Len(allDates) |-> getDateKey(allDates[i])])

\* the day counts ranked with the days in reverse order of first appearance
busiestDayOfLatest(allDates) ==
    LET entries == ByCountDesc(Reverse(dayCountsOf(allDates)))
    IN IF Len(entries) > 0 THEN [date |-> entries[1].key, count |-> entries[1].count] ELSE Null

busiestDayOf(allDates) ==
    LET entries == ByCountDesc(dayCountsOf(allDates))
    IN IF Len(entries) > 0 THEN [date |-> entries[1].key, count |-> entries[1].count] ELSE Null

monthCountsOf(allDates, zone) == CountKeys(<<>>, [i \in 1..Len(allDates) |-> getMonthKey(allDates[i], zone)])

busiestMonthOf(allDates, zone) ==
    LET entries == ByCountDesc(monthCountsOf(allDates, zone))
    IN IF Len(entries) > 0 THEN [month |-> getMonthName(entries[1].key), count |-> entries[1].count] ELSE Null

\* allDates.sort(): the ISO strings of toISOString order as their instants do; the
\* array is sorted in place, so allDates is this array from here on
sortedDatesOf(allDates) ==
    Unkey(StableSortAsc([i \in 1..Len(allDates) |-> [k |-> getTime(allDates[i]), v |-> allDates[i]]]))

\* in tenths, with the weeks counted whole: Math.max(1, Math.ceil(weeks))
avgPerWeekOfWholeWeeks(sortedDates) ==
    IF Len(sortedDates) >= 2
    THEN LET span == getTime(sortedDates[Len(sortedDates)]) - getTime(sortedDates[1])
             week == HoursPerDay * DaysPerWeek
         IN RoundDiv(Len(sortedDates) * 10, Max2(1, CeilDiv(span, week)))
    ELSE 0

\* in tenths; weeks = Math.max(1, hours / (24 * 7))
avgPerWeekOf(sortedDates) ==
    IF Len(sortedDates) >= 2
    THEN LET span == getTime(sortedDates[Len(sortedDates)]) - getTime(sortedDates[1])
             week == HoursPerDay * DaysPerWeek
         IN IF span <= week THEN Len(sortedDates) * 10
            ELSE RoundDiv(Len(sortedDates) * 10 * week, span)
    ELSE 0

IsRatedMovie(m) == m.rating > 0
IsRatedEpisode(e) == e.rating2 > 0

\* in tenths of the 1..10 scale
avgMovieRatingOf(movies) ==
    LET movieRatings == MapField(SelectSeq(movies, IsRatedMovie), "rating")
    IN IF Len(movieRatings) > 0 THEN RoundDiv(SumSeq(movieRatings) * 10, Len(movieRatings)) ELSE 0

\* the mean of doubled ratings r2, in tenths of a star: (sum / 2 / n) * 10
MeanTenths(ratings2) == RoundDiv(SumSeq(ratings2) * 5, Len(ratings2))

avgEpisodeRatingOf(episodes) ==
    LET epRatings == MapField(SelectSeq(episodes, IsRatedEpisode), "rating2")
    IN IF Len(epRatings) > 0 THEN MeanTenths(epRatings) ELSE 0

\* Number.prototype.toString of h / 2, a multiple of 0.5
NumberToString(h) == IF h % 2 = 0 THEN ToString(h \div 2) ELSE ToString(h \div 2) \o ".5"

\* the movie rating with a different normalization: the raw 1..10 value as the key
movieBucketRaw(m) == ToString(m.rating)

\* Math.round((m.rating / 2) * 2) / 2, doubled, then toString
movieBucket(m) == NumberToString(RoundDiv(m.rating * 2, 2))

episodeBucket(e) == NumberToString(e.rating2)

\* the [key, count] pairs in the order the keys were first written; the report
\* is read by key
ratingDistributionOf(movies, episodes) ==
    LET ms == SelectSeq(movies, IsRatedMovie)
        es == SelectSeq(episodes, IsRatedEpisode)
    IN CountKeys(CountKeys(<<>>, [i \in 1..Len(ms) |-> movieBucket(ms[i])]),
                 [i \in 1..Len(es) |-> episodeBucket(es[i])])

MovieCard(m) == [title |-> m.title, rating |-> m.rating]

\* movies.sort(...).filter(...): the sort is done on the array it was given
ratedMoviesInPlace(movies) ==
    LET sorted == SortDescBy([i \in 1..Len(movies) |-> [k |-> movies[i].rating, v |-> movies[i]]])
    IN [movies |-> sorted, ratedMovies |-> SelectSeq(sorted, IsRatedMovie)]

\* movies.filter(m => m.rating > 0).sort((a, b) => b.rating - a.rating): filter
\* returns a new array and the sort is done on it; movies is the array as it is after
ratedMoviesOf(movies) ==
    LET copy == SelectSeq(movies, IsRatedMovie)
    IN [movies |-> movies,
        ratedMovies |-> SortDescBy([i \in 1..Len(copy) |-> [k |-> copy[i].rating, v |-> copy[i]]])]

highestRatedMoviesOf(ratedMovies) ==
    LET top == SliceFirst(ratedMovies, 5) IN [i \in 1..Len(top) |-> MovieCard(top[i])]

\* ratedMovies.slice(-5) without the reverse
lowestRatedMoviesUnreversed(ratedMovies) ==
    LET low == SliceLast(ratedMovies, 5) IN [i \in 1..Len(low) |-> MovieCard(low[i])]

lowestRatedMoviesOf(ratedMovies) ==
    LET low == Reverse(SliceLast(ratedMovies, 5)) IN [i \in 1..Len(low) |-> MovieCard(low[i])]

SeriesIds(episodes) == {episodes[i].seriesId : i \in 1..Len(episodes)}
EpisodesOf(episodes, sid) == SelectSeq(episodes, LAMBDA e : e.seriesId = sid)

\* e.seriesName || `Show ${e.seriesId}`
ShowName(e) == IF e.seriesName # "" THEN e.seriesName ELSE "Show " \o ToString(e.seriesId)

\* the ranking with episodeCount taken over all the watched episodes of a series
highestRatedShowsByWatched(episodes) ==
    LET ids == AscendingSeq(SeriesIds(episodes))
        showEpMap == [i \in 1..Len(ids) |->
            LET eps == EpisodesOf(episodes, ids[i])
            IN [name |-> ShowName(eps[1]), watched |-> Len(eps),
                ratings |-> MapField(SelectSeq(eps, IsRatedEpisode), "rating2")]]
        rated == SelectSeq(showEpMap, LAMBDA v : Len(v.ratings) >= 1)
        shows == [i \in 1..Len(rated) |->
            [name |-> rated[i].name, avgRating |-> MeanTenths(rated[i].ratings),
             episodeCount |-> rated[i].watched]]
    IN SliceFirst(SortDescBy([i \in 1..Len(shows) |-> [k |-> shows[i].avgRating, v |-> shows[i]]]), 5)

highestRatedShowsOf(episodes) ==
    LET ids == AscendingSeq(SeriesIds(episodes))
        showEpMap == [i \in 1..Len(ids) |->
            LET eps == EpisodesOf(episodes, ids[i])
            IN [name |-> ShowName(eps[1]),
                ratings |-> MapField(SelectSeq(eps, IsRatedEpisode), "rating2")]]
        rated == SelectSeq(showEpMap, LAMBDA v : Len(v.ratings) >= 1)
        shows == [i \in 1..Len(rated) |->
            [name |-> rated[i].name, avgRating |-> MeanTenths(rated[i].ratings),
             episodeCount |-> Len(rated[i].ratings)]]
    IN SliceFirst(SortDescBy([i \in 1..Len(shows) |-> [k |-> shows[i].avgRating, v |-> shows[i]]]), 5)

------------------------------------------------------------------------------
(* StatsService.computeWrapped: genres and timeline *)

\* a movie's rating / 2 and an episode's rating, both doubled
\* a movie's rating taken as it is, on the 10-point scale
MovieGenreViewRaw(m) == [genres |-> m.genres, r2 |-> 2 * m.rating]

MovieGenreView(m) == [genres |-> m.genres, r2 |-> m.rating]
EpisodeGenreView(e) == [genres |-> e.genres, r2 |-> e.rating2]

RECURSIVE GenreOccurrences(_)
\* one [g, r2] per genre tag, in the order the two forEach loops visit them
GenreOccurrences(views) ==
    IF views = <<>> THEN <<>>
    ELSE [i \in 1..Len(Head(views).genres) |-> [g |-> Head(views).genres[i], r2 |-> Head(views).r2]]
         \o GenreOccurrences(Tail(views))

genreOccurrencesOf(movies, episodes) ==
    GenreOccurrences([i \in 1..Len(movies) |-> MovieGenreView(movies[i])]
                     \o [i \in 1..Len(episodes) |-> EpisodeGenreView(episodes[i])])

genreCountMapOf(movies, episodes) ==
    LET occ == genreOccurrencesOf(movies, episodes)
    IN CountKeys(<<>>, [i \in 1..Len(occ) |-> occ[i].g])

\* the ranking counted over the movies' genre tags only
topGenresOfMovies(movies, episodes) ==
    LET top == SliceFirst(ByCountDesc(genreCountMapOf(movies, <<>>)), 10)
    IN [i \in 1..Len(top) |-> [genre |-> top[i].key, count |-> top[i].count]]

topGenresOf(movies, episodes) ==
    LET top == SliceFirst(ByCountDesc(genreCountMapOf(movies, episodes)), 10)
    IN [i \in 1..Len(top) |-> [genre |-> top[i].key, count |-> top[i].count]]

genreByAvgRatingOf(movies, episodes) ==
    LET occ == SelectSeq(genreOccurrencesOf(movies, episodes), LAMBDA o : o.r2 > 0)
        genreRatingMap == CountKeys(<<>>, [i \in 1..Len(occ) |-> occ[i].g])
        enough == SelectSeq(genreRatingMap, LAMBDA e : e.count >= 2)
        RatingsOf(g) == LET mine == SelectSeq(occ, LAMBDA o : o.g = g)
                        IN [i \in 1..Len(mine) |-> mine[i].r2]
        avgs == [i \in 1..Len(enough) |->
                    [genre |-> enough[i].key, avgRating |-> MeanTenths(RatingsOf(enough[i].key))]]
    IN SortDescBy([i \in 1..Len(avgs) |-> [k |-> avgs[i].avgRating, v |-> avgs[i]]])

busiestDayOfWeekOf(allDates, zone) ==
    LET dayOfWeekCounts == CountKeys(<<>>, [i \in 1..Len(allDates) |-> getDayOfWeek(allDates[i], zone)])
        entries == ByCountDesc(dayOfWeekCounts)
    IN IF Len(entries) > 0 THEN [day |-> entries[1].key, count |-> entries[1].count] ELSE Null

\* `${e.seriesName} S${e.seasonNumber}E${e.episodeNumber}`
EpisodeTitle(e) ==
    (IF e.seriesName # "" THEN e.seriesName ELSE "undefined")
    \o " S" \o ToString(e.seasonNumber) \o "E" \o ToString(e.episodeNumber)

\* the dated entries in the order of the two arrays, not sorted
allEntriesUnsorted(movies, episodes) ==
    LET all == [i \in 1..Len(movies) |-> [title |-> movies[i].title, date |-> movies[i].watchedDate]]
               \o [i \in 1..Len(episodes) |-> [title |-> EpisodeTitle(episodes[i]), date |-> episodes[i].watchedDate]]
    IN SelectSeq(all, LAMBDA e : Truthy(e.date))

\* sorted by new Date(date).getTime() ascending
allEntriesOf(movies, episodes) ==
    LET all == [i \in 1..Len(movies) |-> [title |-> movies[i].title, date |-> movies[i].watchedDate]]
               \o [i \in 1..Len(episodes) |-> [title |-> EpisodeTitle(episodes[i]), date |-> episodes[i].watchedDate]]
        dated == SelectSeq(all, LAMBDA e : Truthy(e.date))
    IN Unkey(StableSortAsc([i \in 1..Len(dated) |-> [k |-> getTime(dated[i].date), v |-> dated[i]]]))

\* the histogram with a key for every month of the year, 0 for the empty ones
monthlyActivityFilled(allDates, zone) ==
    LET counts == monthCountsOf(allDates, zone)
    IN [m \in 1..Len(MonthNames) |->
          [key |-> [year |-> 2026, month |-> m], count |-> CountOf(counts, [year |-> 2026, month |-> m])]]

monthlyActivityOf(allDates, zone) == monthCountsOf(allDates, zone)

------------------------------------------------------------------------------
(* StatsService.computeWrapped: shows, movies, engagement *)

\* new Date(a) < new Date(b): false when either is an invalid date
DateLt(a, b) == Parsable(a) /\ Parsable(b) /\ getTime(a) < getTime(b)

RECURSIVE ScanDates(_, _, _)
ScanDates(eps, first, last) ==
    IF eps = <<>> THEN [firstDate |-> first, lastDate |-> last]
    ELSE LET d == Head(eps).watchedDate
         IN ScanDates(Tail(eps), IF DateLt(d, first) THEN d ELSE first,
                                 IF DateLt(last, d) THEN d ELSE last)

\* Object.values(showCounts): the series in ascending seriesId order
showCountsOf(episodes) ==
    LET ids == AscendingSeq(SeriesIds(episodes))
    IN [i \in 1..Len(ids) |->
            LET eps == EpisodesOf(episodes, ids[i])
                sc == ScanDates(eps, eps[1].watchedDate, eps[1].watchedDate)
            IN [seriesId |-> ids[i], name |-> ShowName(eps[1]), count |-> Len(eps),
                firstDate |-> sc.firstDate, lastDate |-> sc.lastDate]]

showsWithMostEpisodesOf(showCounts) ==
    LET top == SliceFirst(SortDescBy([i \in 1..Len(showCounts) |->
                              [k |-> showCounts[i].count, v |-> showCounts[i]]]), 5)
    IN [i \in 1..Len(top) |-> [name |-> top[i].name, count |-> top[i].count]]

\* Math.max(1, Math.ceil(ms / day)); NaN, written -1, when a date is invalid
bingeDays(show) ==
    IF Parsable(show.firstDate) /\ Parsable(show.lastDate)
    THEN Max2(1, CeilDiv(getTime(show.lastDate) - getTime(show.firstDate), HoursPerDay))
    ELSE -1

\* (show.count / days) > (fastestBinge.episodes / fastestBinge.days)
FasterRate(count, days, best) ==
    days > 0 /\ best.days > 0 /\ count * best.days > best.episodes * days

RECURSIVE bingeLoop(_, _)
bingeLoop(shows, best) ==
    IF shows = <<>> THEN best
    ELSE LET show == Head(shows)
             days == bingeDays(show)
         IN bingeLoop(Tail(shows),
                IF show.count >= 3 /\ (best = Null \/ FasterRate(show.count, days, best))
                THEN [name |-> show.name, days |-> days, episodes |-> show.count]
                ELSE best)

fastestBingeOf(showCounts) == bingeLoop(showCounts, Null)

\* the distinct season numbers, whatever the series
totalSeasonsByNumber(episodes) ==
    Cardinality({episodes[i].seasonNumber : i \in 1..Len(episodes)})

totalSeasonsCompletedOf(episodes) ==
    Cardinality({<<episodes[i].seriesId, episodes[i].seasonNumber>> : i \in 1..Len(episodes)})

\* releaseDate is <<>> for "", <<year, month, day>> for "YYYY-MM-DD", and a first
\* component below 0 stands for a string parseInt cannot read
HasYear(m) == Len(m.releaseDate) > 0 /\ m.releaseDate[1] >= 0
ReleaseYear(m) == m.releaseDate[1]

\* Math.floor(year / 10) * 10, the number before the "s"
getDecade(year) == (year \div 10) * 10

decadeBreakdownOf(movies) ==
    LET dated == SelectSeq(movies, HasYear)
    IN CountKeys(<<>>, [i \in 1..Len(dated) |-> getDecade(ReleaseYear(dated[i]))])

RECURSIVE OldestLoopLast(_, _)
\* the loop with year <= oldestMovie.year: on equal years the last movie is kept
OldestLoopLast(ms, best) ==
    IF ms = <<>> THEN best
    ELSE OldestLoopLast(Tail(ms),
            IF HasYear(Head(ms)) /\ (best = Null \/ ReleaseYear(Head(ms)) <= best.year)
            THEN [title |-> Head(ms).title, year |-> ReleaseYear(Head(ms))] ELSE best)

RECURSIVE OldestLoop(_, _)
OldestLoop(ms, best) ==
    IF ms = <<>> THEN best
    ELSE OldestLoop(Tail(ms),
            IF HasYear(Head(ms)) /\ (best = Null \/ ReleaseYear(Head(ms)) < best.year)
            THEN [title |-> Head(ms).title, year |-> ReleaseYear(Head(ms))] ELSE best)

RECURSIVE NewestLoop(_, _)
NewestLoop(ms, best) ==
    IF ms = <<>> THEN best
    ELSE NewestLoop(Tail(ms),
            IF HasYear(Head(ms)) /\ (best = Null \/ ReleaseYear(Head(ms)) > best.year)
            THEN [title |-> Head(ms).title, year |-> ReleaseYear(Head(ms))] ELSE best)

\* the mean taken over every movie, the ones without a runtime included
avgMovieRuntimeOfAll(movies) ==
    LET movieRuntimes == MapField(movies, "runtime")
    IN IF Len(movieRuntimes) > 0 THEN RoundDiv(SumSeq(movieRuntimes), Len(movieRuntimes)) ELSE 0

avgMovieRuntimeOf(movies) ==
    LET movieRuntimes == MapField(SelectSeq(movies, LAMBDA m : m.runtime > 0), "runtime")
    IN IF Len(movieRuntimes) > 0 THEN RoundDiv(SumSeq(movieRuntimes), Len(movieRuntimes)) ELSE 0

\* the repeated identifiers counted with their first viewing: sum + c, not sum + c - 1
rewatchCountWithFirst(movies) ==
    LET movieIdCounts == CountKeys(<<>>, [i \in 1..Len(movies) |-> movies[i].movieId])
        repeated == SelectSeq(movieIdCounts, LAMBDA c : c.count > 1)
    IN SumSeq([i \in 1..Len(repeated) |-> repeated[i].count])

rewatchCountOf(movies) ==
    LET movieIdCounts == CountKeys(<<>>, [i \in 1..Len(movies) |-> movies[i].movieId])
        repeated == SelectSeq(movieIdCounts, LAMBDA c : c.count > 1)
    IN SumSeq([i \in 1..Len(repeated) |-> repeated[i].count - 1])

totalLikesOf(episodes) == Len(SelectSeq(episodes, LAMBDA e : e.liked))

\* the percentage taken over the episodes alone
likeRatioOfEpisodes(totalLikes, totalMovies, totalEpisodes) ==
    IF totalEpisodes > 0 THEN RoundDiv(totalLikes * 100, totalEpisodes) ELSE 0

\* totalEntries > 0 ? Math.round((totalLikes / totalEntries) * 100) : 0; with the
\* entry counts of the model the double arithmetic is exact up to the rounding
likeRatioOf(totalLikes, totalMovies, totalEpisodes) ==
    IF totalMovies + totalEpisodes > 0
    THEN RoundDiv(totalLikes * 100, totalMovies + totalEpisodes) ELSE 0

RECURSIVE TrimStart(_)
TrimStart(text) == IF text # <<>> /\ Head(text) = " " THEN TrimStart(Tail(text)) ELSE text
\* review.trim(), a review being its sequence of characters
Trim(text) == Reverse(TrimStart(Reverse(TrimStart(text))))

allReviewsOf(episodes) == SelectSeq(episodes, LAMBDA e : Truthful(e.review) /\ Len(Trim(e.review)) > 0)

avgReviewLengthOf(allReviews) ==
    IF Len(allReviews) > 0
    THEN RoundDiv(SumSeq([i \in 1..Len(allReviews) |-> Len(allReviews[i].review)]), Len(allReviews))
    ELSE 0

RECURSIVE TagOccurrences(_)
TagOccurrences(episodes) ==
    IF episodes = <<>> THEN <<>> ELSE Head(episodes).tags \o TagOccurrences(Tail(episodes))

topTagsOf(episodes) ==
    LET top == SliceFirst(ByCountDesc(CountKeys(<<>>, TagOccurrences(episodes))), 10)
    IN [i \in 1..Len(top) |-> [tag |-> top[i].key, count |-> top[i].count]]

------------------------------------------------------------------------------
(* StatsService.computeWrapped *)

\* The result of one call on the arrays the four accessors returned: the report
\* (or Threw, when the call rejects) and the two entry arrays as the call leaves
\* them.  getDateKey throws a RangeError on the first date that does not parse:
\* toISOString of an invalid Date.
computeWrapped(movies0, episodes, favMovies, favEpisodes, zone) ==
    LET allDates0 == allDatesOf(movies0, episodes)
    IN IF \E i \in 1..Len(allDates0) : ~Parsable(allDates0[i])
       THEN [stats |-> Threw, movies |-> movies0, episodes |-> episodes]
       ELSE
       LET allDates == sortedDatesOf(allDates0)
           totalHoursWatched == totalHoursWatchedOf(movies0, episodes)
           rated == ratedMoviesOf(movies0)
           movies == rated.movies
           topGenres == topGenresOf(movies, episodes)
           allEntries == allEntriesOf(movies, episodes)
           showCounts == showCountsOf(episodes)
           totalLikes == totalLikesOf(episodes)
           allReviews == allReviewsOf(episodes)
       IN [stats |->
             [status |-> "ok",
              totalMovies |-> Len(movies0),
              totalEpisodes |-> Len(episodes),
              totalHoursWatched |-> totalHoursWatched,
              longestMovie |-> longestMovieOf(movies0),
              busiestDay |-> busiestDayOf(allDates0),
              busiestMonth |-> busiestMonthOf(allDates0, zone),
              avgPerWeek |-> avgPerWeekOf(allDates),
              avgMovieRating |-> avgMovieRatingOf(movies0),
              avgEpisodeRating |-> avgEpisodeRatingOf(episodes),
              ratingDistribution |-> ratingDistributionOf(movies0, episodes),
              highestRatedMovies |-> highestRatedMoviesOf(rated.ratedMovies),
              lowestRatedMovies |-> lowestRatedMoviesOf(rated.ratedMovies),
              highestRatedShows |-> highestRatedShowsOf(episodes),
              topGenres |-> topGenres,
              genreByAvgRating |-> genreByAvgRatingOf(movies, episodes),
              longestStreak |-> computeStreak(allDates),
              busiestDayOfWeek |-> busiestDayOfWeekOf(allDates, zone),
              firstLog |-> IF Len(allEntries) > 0 THEN allEntries[1] ELSE Null,
              lastLog |-> IF Len(allEntries) > 0 THEN allEntries[Len(allEntries)] ELSE Null,
              monthlyActivity |-> monthlyActivityOf(allDates, zone),
              uniqueShowsWatched |-> Len(showCounts),
              showsWithMostEpisodes |-> showsWithMostEpisodesOf(showCounts),
              fastestBinge |-> fastestBingeOf(showCounts),
              totalSeasonsCompleted |-> totalSeasonsCompletedOf(episodes),
              decadeBreakdown |-> decadeBreakdownOf(movies),
              oldestMovie |-> OldestLoop(movies, Null),
              newestMovie |-> NewestLoop(movies, Null),
              avgMovieRuntime |-> avgMovieRuntimeOf(movies),
              rewatchCount |-> rewatchCountOf(movies),
              totalLikes |-> totalLikes,
              totalFavorites |-> Len(favMovies) + Len(favEpisodes),
              likeRatio |-> likeRatioOf(totalLikes, Len(movies0), Len(episodes)),
              totalReviews |-> Len(allReviews),
              avgReviewLength |-> avgReviewLengthOf(allReviews),
              topTags |-> topTagsOf(episodes),
              personalityType |-> determinePersonality(
                  [topGenres |-> topGenres, totalHoursWatched |-> totalHoursWatched], movies, episodes),
              totalEntries |-> Len(movies0) + Len(episodes)],
           movies |-> movies,
           episodes |-> episodes]

------------------------------------------------------------------------------
(* StorageProvider: the writers *)

\* a key made of the movieId alone: one entry per movie
MovieKeyById(movie) == <<movie.movieId, EmptyDate>>

MovieKey(movie) == <<movie.movieId, movie.watchedDate>>

NoGiven == [movies |-> <<>>, episodes |-> <<>>]

\* watched[`${movie.movieId}_${movie.watchedDate}`] = movie
addToWatchedMovies(movie) ==
    /\ stats = NoStats
    /\ IF \E i \in 1..Len(watchedMovies) : watchedMovies[i].key = MovieKey(movie)
       THEN watchedMovies' = [i \in 1..Len(watchedMovies) |->
                IF watchedMovies[i].key = MovieKey(movie)
                THEN [key |-> MovieKey(movie), entry |-> movie] ELSE watchedMovies[i]]
       ELSE /\ Len(watchedMovies) < MaxMovies
            /\ watchedMovies' = Append(watchedMovies, [key |-> MovieKey(movie), entry |-> movie])
    /\ UNCHANGED <<watched, favoriteMovies, favorites, tz, stats, given, limiterVars, cacheVars, tasks>>

\* the first key, in insertion order, whose entry has the movieId and, when a
\* watchedDate is passed (a non-empty string), that watchedDate
removeFromWatchedMovies(movieId, watchedDate) ==
    LET Matches(i) == /\ watchedMovies[i].entry.movieId = movieId
                      /\ (Truthy(watchedDate) => watchedMovies[i].entry.watchedDate = watchedDate)
        hits == {i \in 1..Len(watchedMovies) : Matches(i)}
    IN /\ stats = NoStats
       /\ hits # {}
       /\ LET keyToDelete == CHOOSE i \in hits : \A j \in hits : i <= j
          IN watchedMovies' = SubSeq(watchedMovies, 1, keyToDelete - 1)
                              \o SubSeq(watchedMovies, keyToDelete + 1, Len(watchedMovies))
       /\ UNCHANGED <<watched, favoriteMovies, favorites, tz, stats, given, limiterVars, cacheVars, tasks>>

\* the first key, in insertion order, whose entry has the movieId: its rating
\* is overwritten; nothing is written when there is none
updateWatchedMovieRating(movieId, newRating) ==
    LET hits == {i \in 1..Len(watchedMovies) : watchedMovies[i].entry.movieId = movieId}
    IN /\ stats = NoStats
       /\ hits # {}
       /\ LET key == CHOOSE i \in hits : \A j \in hits : i <= j
          IN watchedMovies' = [watchedMovies EXCEPT ![key].entry.rating = newRating]
       /\ UNCHANGED <<watched, favoriteMovies, favorites, tz, stats, given, limiterVars, cacheVars, tasks>>

\* watched[episode.episodeId] = episode
markEpisodeAsWatched(episode) ==
    /\ stats = NoStats
    /\ episode.episodeId \in DOMAIN watched \/ Cardinality(DOMAIN watched) < MaxEpisodes
    /\ watched' = [id \in DOMAIN watched \cup {episode.episodeId} |->
                      IF id = episode.episodeId THEN episode ELSE watched[id]]
    /\ UNCHANGED <<watchedMovies, favoriteMovies, favorites, tz, stats, given, limiterVars, cacheVars, tasks>>

\* delete watched[episodeId]
removeWatchedEpisode(episodeId) ==
    /\ stats = NoStats
    /\ episodeId \in DOMAIN watched
    /\ watched' = [id \in DOMAIN watched \ {episodeId} |-> watched[id]]
    /\ UNCHANGED <<watchedMovies, favoriteMovies, favorites, tz, stats, given, limiterVars, cacheVars, tasks>>

toggleFavoriteEpisode(episodeId, isFavorite) ==
    /\ stats = NoStats
    /\ favorites' = IF isFavorite THEN favorites \cup {episodeId} ELSE favorites \ {episodeId}
    /\ UNCHANGED <<watchedMovies, watched, favoriteMovies, tz, stats, given, limiterVars, cacheVars, tasks>>

\* MovieDetail passes movieInfo exactly when isFavorite is true
toggleFavoriteMovie(movieId, isFavorite) ==
    /\ stats = NoStats
    /\ favoriteMovies' = IF isFavorite THEN favoriteMovies \cup {movieId} ELSE favoriteMovies \ {movieId}
    /\ UNCHANGED <<watchedMovies, watched, favorites, tz, stats, given, limiterVars, cacheVars, tasks>>

------------------------------------------------------------------------------
(* WrappedScreen *)

\* loadStats, run when the screen mounts: the screen covers the others, so the
\* store is not written while it is open
loadStats ==
    /\ stats = NoStats
    /\ LET r == computeWrapped(getWatchedMovies, getAllWatchedEpisodes,
                               getAllFavoriteMovies, getAllFavorites, tz)
       IN /\ stats' = r.stats
          /\ given' = [movies |-> r.movies, episodes |-> r.episodes]
    /\ UNCHANGED <<watchedMovies, watched, favoriteMovies, favorites, tz, limiterVars, cacheVars, tasks>>

\* onClose unmounts the screen and drops its state
onClose ==
    /\ stats # NoStats
    /\ stats' = NoStats
    /\ given' = NoGiven
    /\ UNCHANGED <<watchedMovies, watched, favoriteMovies, favorites, tz, limiterVars, cacheVars, tasks>>

------------------------------------------------------------------------------
(* The library: a small catalogue of entries the screens can log *)

\* the timestamp of the given hour of a day of 2026
At(month, day, hour) == Iso(ParseDateKey([year |-> 2026, month |-> month, day |-> day]) + hour)

LibraryMovies ==
    { Movie(1, "Alien", 8, At(2, 1, 20), 117, <<1979, 5, 25>>, <<"Horror", "Sci-Fi">>),
      Movie(1, "Alien", 6, At(2, 3, 20), 117, <<1979, 5, 25>>, <<"Horror", "Sci-Fi">>),
      Movie(1, "Alien", 0, At(2, 5, 20), 117, <<1979, 5, 25>>, <<"Horror", "Sci-Fi">>),
      Movie(2, "Heat", 9, At(2, 2, 21), 170, <<1995, 12, 15>>, <<"Crime">>),
      Movie(3, "Clue", 3, At(2, 3, 20), 94, <<1985, 12, 13>>, <<"Comedy", "Mystery">>),
      Movie(4, "Tenet", 8, At(2, 4, 19), 150, <<2020, 8, 26>>, <<"Sci-Fi">>) }

LibraryEpisodes ==
    { Episode(101, 10, "Severance", 1, 1, 8, At(2, 2, 22), TRUE, <<"o", "k">>, 50, <<"Drama">>, <<"work">>),
      Episode(102, 10, "Severance", 1, 2, 0, At(2, 3, 22), FALSE, <<>>, 0, <<>>, <<>>) }

Library == [movies |-> LibraryMovies, episodes |-> LibraryEpisodes, zones |-> {0}]

InitWith(cat) ==
    /\ watchedMovies = <<>>
    /\ watched = <<>>
    /\ favoriteMovies = {}
    /\ favorites = {}
    /\ tz \in cat.zones
    /\ stats = NoStats
    /\ given = NoGiven
    /\ Quiet

Init == InitWith(Library)

Next ==
    \/ \E movie \in Library.movies : addToWatchedMovies(movie)
    \/ \E movie \in Library.movies : removeFromWatchedMovies(movie.movieId, movie.watchedDate)
    \/ \E episode \in Library.episodes : markEpisodeAsWatched(episode)
    \/ \E episode \in Library.episodes : removeWatchedEpisode(episode.episodeId)
    \/ loadStats
    \/ onClose

Spec == Init /\ [][Next]_vars

------------------------------------------------------------------------------
(* Properties of the report *)

HasReport == stats # NoStats /\ stats # Threw

EmptyInput ==
    /\ watchedMovies = <<>>
    /\ DOMAIN watched = {}
    /\ favoriteMovies = {}
    /\ favorites = {}

\* C1: with no watched movie, no watched episode and no favorite, computeWrapped
\* does not throw and returns totalEntries = 0, the Newcomer personality, 0 in
\* every numeric field and null in every optional single-item field.
C1_EmptyInputReport ==
    (stats # NoStats /\ EmptyInput) =>
        /\ stats # Threw
        /\ stats.totalEntries = 0
        /\ stats.personalityType.label = "The Newcomer"
        /\ \A n \in {stats.totalMovies, stats.totalEpisodes, stats.totalHoursWatched,
                     stats.avgPerWeek, stats.avgMovieRating, stats.avgEpisodeRating,
                     stats.longestStreak, stats.uniqueShowsWatched, stats.totalSeasonsCompleted,
                     stats.avgMovieRuntime, stats.rewatchCount, stats.totalLikes,
                     stats.totalFavorites, stats.likeRatio, stats.totalReviews,
                     stats.avgReviewLength} : n = 0
        /\ \A item \in {stats.longestMovie, stats.busiestDay, stats.busiestMonth,
                        stats.busiestDayOfWeek, stats.firstLog, stats.lastLog,
                        stats.fastestBinge, stats.oldestMovie, stats.newestMovie} : item = Null

C1_Witness == stats # NoStats /\ EmptyInput


StoredMovies == [i \in 1..Len(watchedMovies) |-> watchedMovies[i].entry]
StoredEpisodes == {watched[id] : id \in DOMAIN watched}

\* C5: computeWrapped writes nothing to the store, and the movie and episode
\* arrays it was given hold the same entries in the same order after the call
\* as the accessors returned before it.
C5_InputsUntouched ==
    [][(stats = NoStats /\ stats' # NoStats) =>
          /\ watchedMovies' = watchedMovies
          /\ watched' = watched
          /\ favoriteMovies' = favoriteMovies
          /\ favorites' = favorites
          /\ given'.movies = getWatchedMovies
          /\ given'.episodes = getAllWatchedEpisodes]_vars

\* a report over movies whose order by rating is not their order by date
C5_Witness ==
    /\ HasReport
    /\ \E i, j \in 1..Len(given.movies) :
          i < j /\ given.movies[i].rating > 0 /\ given.movies[i].rating < given.movies[j].rating

MovieIds == {StoredMovies[i].movieId : i \in 1..Len(StoredMovies)}
Occurrences(id) == Cardinality({i \in 1..Len(StoredMovies) : StoredMovies[i].movieId = id})

RECURSIVE SumOver(_, _)
\* the sum of F[x] over the finite set S
SumOver(S, F) == IF S = {} THEN 0
                 ELSE LET x == CHOOSE y \in S : TRUE IN F[x] + SumOver(S \ {x}, F)

\* C7: rewatchCount is the sum, over the movie identifiers logged more than
\* once, of (occurrences - 1); it equals totalMovies minus the number of
\* distinct identifiers, and is 2 for one movie logged three times plus two
\* movies logged once.
C7_RewatchCount ==
    HasReport =>
        /\ stats.rewatchCount =
              SumOver({id \in MovieIds : Occurrences(id) > 1}, [id \in MovieIds |-> Occurrences(id) - 1])
        /\ stats.rewatchCount = stats.totalMovies - Cardinality(MovieIds)
        /\ (Cardinality(MovieIds) = 3 /\ Len(StoredMovies) = 5 /\ (\E id \in MovieIds : Occurrences(id) = 3))
              => stats.rewatchCount = 2

C7_Witness ==
    /\ HasReport
    /\ Cardinality(MovieIds) = 3
    /\ Len(StoredMovies) = 5
    /\ \E id \in MovieIds : Occurrences(id) = 3

\* the keys of the 0.5-step scale, by doubled value
StarScale == <<"0.5", "1", "1.5", "2", "2.5", "3", "3.5", "4", "4.5", "5">>

RatedMovieCount(h) == Cardinality({i \in 1..Len(StoredMovies) : StoredMovies[i].rating = h})
RatedEpisodeCount(h) == Cardinality({e \in StoredEpisodes : e.rating2 = h})

\* C8: in ratingDistribution every key lies on the 0.5-step scale from 0.5 to 5;
\* the count under a key is the number of movies whose rating halved is that key
\* plus the number of episodes whose rating is that key (so 8/10 and 4/5 share
\* "4"); unrated entries are in no bucket, and the counts sum to the number of
\* rated movies plus rated episodes.
C8_RatingDistribution ==
    HasReport =>
        LET dist == stats.ratingDistribution
        IN /\ \A i \in 1..Len(dist) : dist[i].key \in Range(StarScale)
           /\ \A h \in 1..Len(StarScale) :
                 CountOf(dist, StarScale[h]) = RatedMovieCount(h) + RatedEpisodeCount(h)
           /\ SumSeq([i \in 1..Len(dist) |-> dist[i].count]) =
                 Cardinality({i \in 1..Len(StoredMovies) : StoredMovies[i].rating > 0})
                 + Cardinality({e \in StoredEpisodes : e.rating2 > 0})

\* a movie rated 8/10, an episode rated 4/5 and an unrated entry in one report
C8_Witness ==
    /\ HasReport
    /\ \E i \in 1..Len(StoredMovies) : StoredMovies[i].rating = 8
    /\ \E e \in StoredEpisodes : e.rating2 = 8
    /\ \E i \in 1..Len(StoredMovies) : StoredMovies[i].rating = 0
    /\ CountOf(stats.ratingDistribution, "4") >= 2

LikedCount == Cardinality({e \in StoredEpisodes : e.liked})
EntryCount == Len(StoredMovies) + Cardinality(StoredEpisodes)

\* C10: likeRatio is an integer from 0 to 100, the percentage of liked episodes
\* among all entries (movies and episodes) rounded to a nearest integer (at most
\* one half away from 100 * liked / entries), and 0 when there is no entry.
C10_LikeRatio ==
    HasReport =>
        /\ stats.likeRatio \in 0..100
        /\ EntryCount = 0 => stats.likeRatio = 0
        /\ EntryCount > 0 =>
              /\ 2 * EntryCount * stats.likeRatio <= 200 * LikedCount + EntryCount
              /\ 200 * LikedCount - EntryCount <= 2 * EntryCount * stats.likeRatio

\* a report with a liked episode among movies and episodes
C10_Witness ==
    /\ HasReport
    /\ LikedCount > 0
    /\ Len(StoredMovies) > 0
    /\ stats.likeRatio \in 1..99

------------------------------------------------------------------------------
(* The timeline: entries spread over the days around the first week of     *)
(* February, with which the date-dependent metrics are exercised           *)

\* one episode a day on February 1, 2, 3, 5, 6, 7 and 8, a second one on
\* February 2, one late on January 31, and one stored without a watchedDate
TimelineEpisodes ==
    { Episode(200 + day, 20, "Dark", 1, day, 6, At(2, day, 21), FALSE, <<>>, 45, <<>>, <<>>)
        : day \in {1, 2, 3, 5, 6, 7, 8} }
    \cup { Episode(210, 21, "Lost", 1, 1, 0, At(2, 2, 9), FALSE, <<>>, 40, <<>>, <<>>),
           Episode(211, 21, "Lost", 1, 2, 0, At(1, 31, 23), FALSE, <<>>, 40, <<>>, <<>>),
           Episode(212, 21, "Lost", 1, 3, 0, EmptyDate, FALSE, <<>>, 40, <<>>, <<>>) }

\* a movie on February 4 and a movie whose watchedDate is not a date
TimelineMovies ==
    { Movie(5, "Ran", 9, At(2, 4, 18), 162, <<1985, 6, 1>>, <<"Drama">>),
      Movie(6, "Big", 7, BadDate, 104, <<1988, 6, 3>>, <<"Comedy">>) }

Timeline == [movies |-> TimelineMovies, episodes |-> TimelineEpisodes, zones |-> {0}]

InitTimeline == InitWith(Timeline)

NextTimeline ==
    \/ \E movie \in Timeline.movies : addToWatchedMovies(movie)
    \/ \E movie \in Timeline.movies : removeFromWatchedMovies(movie.movieId, movie.watchedDate)
    \/ \E episode \in Timeline.episodes : markEpisodeAsWatched(episode)
    \/ \E episode \in Timeline.episodes : removeWatchedEpisode(episode.episodeId)
    \/ loadStats
    \/ onClose

SpecTimeline == InitTimeline /\ [][NextTimeline]_vars

\* the watchedDate values of the stored entries
StoredDates == {StoredMovies[i].watchedDate : i \in 1..Len(StoredMovies)} \cup {e.watchedDate : e \in StoredEpisodes}

\* C4: a stored entry whose watchedDate is a non-empty string that Date cannot
\* parse never makes computeWrapped fail: the call still returns a report.
C4_UnparsableDateStillReports ==
    (stats # NoStats /\ \E d \in StoredDates : Truthy(d) /\ ~Parsable(d)) => HasReport

\* the days, counted from 2026-01-01 in UTC, on which an entry was watched
WatchDays == {getTime(d) \div HoursPerDay : d \in {x \in StoredDates : Truthy(x) /\ Parsable(x)}}

\* the length of the longest run of consecutive days in a set of days
LongestRun(days) ==
    IF days = {} THEN 0
    ELSE LET runs == {n \in 1..Cardinality(days) :
                        \E a \in days : \A k \in 0..(n - 1) : (a + k) \in days}
         IN CHOOSE n \in runs : \A m \in runs : m <= n

FebruaryDays(S) == {ParseDateKey([year |-> 2026, month |-> 2, day |-> d]) \div HoursPerDay : d \in S}

\* C6: longestStreak is the length of the longest run of consecutive calendar
\* days among the distinct watch dates of all entries, however many entries a
\* day has and in whatever order they were stored: 0 without a dated entry, 1
\* for a single day, 4 for the days 1, 2, 3, 5, 6, 7, 8 of a month.
C6_LongestStreak ==
    HasReport =>
        /\ stats.longestStreak = LongestRun(WatchDays)
        /\ WatchDays = {} => stats.longestStreak = 0
        /\ Cardinality(WatchDays) = 1 => stats.longestStreak = 1
        /\ WatchDays = FebruaryDays({1, 2, 3, 5, 6, 7, 8}) => stats.longestStreak = 4

\* the days 1, 2, 3, 5, 6, 7, 8 with two entries on day 2 and an undated entry
C6_Witness ==
    /\ HasReport
    /\ WatchDays = FebruaryDays({1, 2, 3, 5, 6, 7, 8})
    /\ 210 \in DOMAIN watched
    /\ 212 \in DOMAIN watched
    /\ stats.longestStreak = 4

------------------------------------------------------------------------------
(* Viewer profiles: stores of like entries, with which the rules of        *)
(* determinePersonality are exercised                                      *)

GenreNames == <<"Drama", "Crime", "Comedy", "Horror", "Sci-Fi", "Mystery">>

\* the genres of the i-th entry of a profile: one genre for all, or two
\* neighbours of the list of six
ProfileGenres(i, varied) ==
    IF varied THEN <<GenreNames[(i % Len(GenreNames)) + 1], GenreNames[((i + 1) % Len(GenreNames)) + 1]>>
    ELSE <<GenreNames[1]>>

\* n movies of one rating and runtime, logged on the first days of March
ProfileMovies(n, rating, runtime, varied) ==
    [i \in 1..n |->
        LET movie == Movie(i, "Movie", rating, At(3, i, 20), runtime, <<2000 + i, 1, 1>>,
                           ProfileGenres(i, varied))
        IN [key |-> MovieKey(movie), entry |-> movie]]

\* n episodes of one series with one rating, review and runtime
ProfileEpisodes(n, rating2, review, runtime, varied) ==
    [id \in 1..n |->
        Episode(id, 30, "Fargo", 1, id, rating2, At(4, id, 21), FALSE, review, runtime,
                ProfileGenres(id, varied), <<>>)]

InitPersonality ==
    \E nM \in 0..MaxMovies, nE \in 0..MaxEpisodes, rating \in {2, 9}, rating2 \in {2, 6, 10},
       review \in {<<>>, <<"o", "k">>}, runtime \in {90, 1500}, varied \in BOOLEAN :
        /\ watchedMovies = ProfileMovies(nM, rating, runtime, varied)
        /\ watched = ProfileEpisodes(nE, rating2, review, runtime, varied)
        /\ favoriteMovies = {}
        /\ favorites = {}
        /\ tz = 0
        /\ stats = NoStats
        /\ given = NoGiven
        /\ Quiet

NextPersonality ==
    \/ loadStats
    \/ onClose

SpecPersonality == InitPersonality /\ [][NextPersonality]_vars

\* the rules in the order the claim gives them, each with its label
RuleOrder ==
    << [rule |-> "newcomer",   label |-> "The Newcomer"],
       [rule |-> "binger",     label |-> "The Binger"],
       [rule |-> "critic",     label |-> "The Critic"],
       [rule |-> "enthusiast", label |-> "The Enthusiast"],
       [rule |-> "explorer",   label |-> "The Explorer"],
       [rule |-> "reviewer",   label |-> "The Reviewer"],
       [rule |-> "marathon",   label |-> "The Marathon Runner"],
       [rule |-> "cinephile",  label |-> "The Cinephile"] >>

\* the conditions of the rules on the stored entries and the report's own fields
StoredConditions ==
    personalityConditions([topGenres |-> stats.topGenres, totalHoursWatched |-> stats.totalHoursWatched],
                          getWatchedMovies, getAllWatchedEpisodes)

FirstMatchingLabel ==
    LET c == StoredConditions
        hits == {i \in 1..Len(RuleOrder) : c[RuleOrder[i].rule]}
    IN IF hits = {} THEN "The Balanced Viewer"
       ELSE RuleOrder[CHOOSE i \in hits : \A j \in hits : i <= j].label

\* the distinct genres of the stored entries
StoredGenres ==
    UNION {Range(StoredMovies[i].genres) : i \in 1..Len(StoredMovies)}
    \cup UNION {Range(e.genres) : e \in StoredEpisodes}

BingerAndExplorer ==
    /\ Cardinality(DOMAIN watched) > 3 * Len(watchedMovies)
    /\ Cardinality(StoredGenres) > 5

\* C2: the personality is the label of the first rule, in the order Newcomer,
\* Binger, Critic, Enthusiast, Explorer, Reviewer, Marathon Runner, Cinephile,
\* Balanced Viewer, whose condition holds; with more than three times as many
\* episodes as movies and more than 5 distinct genres it is Binger, not Explorer.
C2_FirstMatchingRule ==
    HasReport =>
        /\ stats.personalityType = PersonalityOf(FirstMatchingLabel)
        /\ BingerAndExplorer => stats.personalityType.label = "The Binger"

C2_Witness ==
    /\ HasReport
    /\ BingerAndExplorer
    /\ Len(watchedMovies) > 0
    /\ StoredConditions.explorer
    /\ stats.personalityType.label = "The Binger"

------------------------------------------------------------------------------
(* The shows: episodes of three series, with which the per-series metrics  *)
(* are exercised                                                           *)

\* Fargo: three episodes stored without a watchedDate; Dark: four episodes
\* within one evening; Lost: four episodes over 47 hours
ShowsEpisodes ==
    { Episode(390 + n, 39, "Fargo", 1, n, 0, EmptyDate, FALSE, <<>>, 50, <<>>, <<>>) : n \in 1..3 }
    \cup { Episode(400 + n, 40, "Dark", 1, n, 0, At(2, 3, 18 + n), FALSE, <<>>, 50, <<>>, <<>>) : n \in 1..4 }
    \cup { Episode(411, 41, "Lost", 1, 1, 0, At(2, 4, 0), FALSE, <<>>, 40, <<>>, <<>>),
           Episode(412, 41, "Lost", 1, 2, 0, At(2, 4, 12), FALSE, <<>>, 40, <<>>, <<>>),
           Episode(413, 41, "Lost", 2, 1, 0, At(2, 5, 12), FALSE, <<>>, 40, <<>>, <<>>),
           Episode(414, 41, "Lost", 2, 2, 0, At(2, 5, 23), FALSE, <<>>, 40, <<>>, <<>>) }

\* the favorite buttons are pressed for one episode and one movie
Shows == [movies |-> {}, episodes |-> ShowsEpisodes, zones |-> {0},
          favoriteEpisodes |-> {401}, favoriteMovies |-> {7}]

InitShows == InitWith(Shows)

NextShows ==
    \/ \E episode \in Shows.episodes : markEpisodeAsWatched(episode)
    \/ \E episode \in Shows.episodes : removeWatchedEpisode(episode.episodeId)
    \/ \E id \in Shows.favoriteEpisodes, isFavorite \in BOOLEAN : toggleFavoriteEpisode(id, isFavorite)
    \/ \E id \in Shows.favoriteMovies, isFavorite \in BOOLEAN : toggleFavoriteMovie(id, isFavorite)
    \/ loadStats
    \/ onClose

SpecShows == InitShows /\ [][NextShows]_vars

StoredSeries == {e.seriesId : e \in StoredEpisodes}
StoredOf(seriesId) == {e \in StoredEpisodes : e.seriesId = seriesId}
EpisodeCount(seriesId) == Cardinality(StoredOf(seriesId))
SeriesName(seriesId) == (CHOOSE e \in StoredOf(seriesId) : TRUE).seriesName

\* the series with at least 3 watched episodes
BingeCandidates == {id \in StoredSeries : EpisodeCount(id) >= 3}

\* the hours from the earliest to the latest dated episode of a series
SpanHours(seriesId) ==
    LET times == {getTime(e.watchedDate) : e \in {x \in StoredOf(seriesId) : Parsable(x.watchedDate)}}
    IN IF times = {} THEN 0
       ELSE (CHOOSE t \in times : \A u \in times : u <= t) - (CHOOSE t \in times : \A u \in times : t <= u)

\* the days between the earliest and the latest episode, in whole days, at least 1
SpanDays(seriesId) == Max2(1, CeilDiv(SpanHours(seriesId), HoursPerDay))

\* count(a) / days(a) >= count(b) / days(b)
RateAtLeast(a, b) == EpisodeCount(a) * SpanDays(b) >= EpisodeCount(b) * SpanDays(a)

\* C9: fastestBinge is null when no series has 3 watched episodes; otherwise it
\* names a series with at least 3 watched episodes whose rate, episodes per day
\* between its earliest and latest episode with the days at least 1, is the
\* highest among those series.
C9_FastestBinge ==
    HasReport =>
        IF BingeCandidates = {} THEN stats.fastestBinge = Null
        ELSE /\ stats.fastestBinge # Null
             /\ \E a \in BingeCandidates :
                    /\ stats.fastestBinge.name = SeriesName(a)
                    /\ \A b \in BingeCandidates : RateAtLeast(a, b)

------------------------------------------------------------------------------
(* The time zones: entries logged close to midnight UTC, on devices west   *)
(* and east of Greenwich                                                   *)

\* a movie late on January 31 and one early on February 1; episodes late on
\* Saturday February 7, on February 8 and early on March 1
ZonesMovies ==
    { Movie(8, "Jaws", 8, At(1, 31, 23), 124, <<1975, 6, 20>>, <<"Thriller">>),
      Movie(9, "Fargo", 9, At(2, 1, 3), 98, <<1996, 3, 8>>, <<"Crime">>) }

ZonesEpisodes ==
    { Episode(501, 50, "Lost", 1, 1, 8, At(2, 7, 22), TRUE, <<>>, 42, <<>>, <<>>),
      Episode(502, 50, "Lost", 1, 2, 6, At(2, 8, 10), FALSE, <<>>, 42, <<>>, <<>>),
      Episode(503, 50, "Lost", 1, 3, 0, At(3, 1, 2), FALSE, <<>>, 42, <<>>, <<>>) }

\* Los Angeles (UTC-8), Greenwich and Tokyo (UTC+9)
Zones == [movies |-> ZonesMovies, episodes |-> ZonesEpisodes, zones |-> {-8, 0, 9}]

InitZones == InitWith(Zones)

NextZones ==
    \/ \E movie \in Zones.movies : addToWatchedMovies(movie)
    \/ \E movie \in Zones.movies : removeFromWatchedMovies(movie.movieId, movie.watchedDate)
    \/ \E episode \in Zones.episodes : markEpisodeAsWatched(episode)
    \/ \E episode \in Zones.episodes : removeWatchedEpisode(episode.episodeId)
    \/ loadStats
    \/ onClose

SpecZones == InitZones /\ [][NextZones]_vars

\* the report computeWrapped gives on the stored collections in a time zone
ReportIn(zone) ==
    computeWrapped(getWatchedMovies, getAllWatchedEpisodes,
                   getAllFavoriteMovies, getAllFavorites, zone).stats

LocalTimeFields == {"busiestMonth", "monthlyActivity", "busiestDayOfWeek"}

\* a report without the fields taken in local time
ZoneFree(report) == [f \in (DOMAIN report) \ LocalTimeFields |-> report[f]]

\* the year and month, on the device's clock, of an instant
LocalMonth(d) ==
    LET day == (getTime(d) + tz) \div HoursPerDay
    IN [year |-> 2026,
        month |-> CHOOSE m \in 1..12 : DaysBefore(m) <= day /\ day < DaysBefore(m) + DaysInMonth[m]]

LoggedIn(month) ==
    Cardinality({i \in 1..Len(StoredMovies) : LocalMonth(StoredMovies[i].watchedDate) = month})
    + Cardinality({e \in StoredEpisodes : LocalMonth(e.watchedDate) = month})

------------------------------------------------------------------------------
(* The averages: entries with and without a rating, a runtime, a review    *)

\* a movie without a runtime, an unrated movie three weeks later, a rated one
AveragesMovies ==
    { Movie(11, "Solaris", 7, At(2, 1, 20), 0, <<1972, 3, 20>>, <<"Sci-Fi">>),
      Movie(12, "Stalker", 0, At(2, 22, 20), 162, <<1979, 5, 25>>, <<"Sci-Fi">>),
      Movie(13, "Mirror", 4, At(2, 3, 20), 107, <<1975, 3, 7>>, <<"Drama">>) }

\* an episode whose review is blank, an unrated one with a review, a rated one
\* with neither a review nor a watchedDate
AveragesEpisodes ==
    { Episode(601, 60, "Twin Peaks", 1, 1, 9, At(2, 2, 21), FALSE, <<" ", " ">>, 47, <<>>, <<>>),
      Episode(602, 60, "Twin Peaks", 1, 2, 0, At(2, 4, 21), FALSE, <<"o", "k", "!">>, 47, <<>>, <<>>),
      Episode(603, 60, "Twin Peaks", 1, 3, 4, EmptyDate, FALSE, <<>>, 47, <<>>, <<>>) }

Averages == [movies |-> AveragesMovies, episodes |-> AveragesEpisodes, zones |-> {0}]

InitAverages == InitWith(Averages)

NextAverages ==
    \/ \E movie \in Averages.movies : addToWatchedMovies(movie)
    \/ \E movie \in Averages.movies : removeFromWatchedMovies(movie.movieId, movie.watchedDate)
    \/ \E episode \in Averages.episodes : markEpisodeAsWatched(episode)
    \/ \E episode \in Averages.episodes : removeWatchedEpisode(episode.episodeId)
    \/ loadStats
    \/ onClose

SpecAverages == InitAverages /\ [][NextAverages]_vars

\* r is n / d rounded to a nearest integer: at most one half away from it
RoundedQuotient(r, n, d) == 2 * d * r <= 2 * n + d /\ 2 * n - d <= 2 * d * r

MovieIndices == 1..Len(StoredMovies)
RatedMovieIndices == {i \in MovieIndices : StoredMovies[i].rating > 0}
TimedMovieIndices == {i \in MovieIndices : StoredMovies[i].runtime > 0}
RatedStoredEpisodes == {e \in StoredEpisodes : e.rating2 > 0}
ReviewedEpisodes == {e \in StoredEpisodes : \E i \in 1..Len(e.review) : e.review[i] # " "}

\* the instants of the dated entries, in hours
WatchTimes == {getTime(d) : d \in {x \in StoredDates : Truthy(x) /\ Parsable(x)}}
DatedCount ==
    Cardinality({i \in MovieIndices : Truthy(StoredMovies[i].watchedDate)})
    + Cardinality({e \in StoredEpisodes : Truthy(e.watchedDate)})
WatchSpan == (CHOOSE t \in WatchTimes : \A u \in WatchTimes : u <= t)
             - (CHOOSE t \in WatchTimes : \A u \in WatchTimes : t <= u)

\* C11: no average is a division by zero.  avgMovieRating and avgEpisodeRating
\* are the means over the entries with rating > 0 and 0 without one;
\* avgMovieRuntime is the mean over the movies with runtime > 0 and 0 without
\* one; avgReviewLength is 0 without a review; avgPerWeek is the number of dated
\* entries divided by the weeks they span, the divisor being at least 1.
C11_Averages ==
    HasReport =>
        /\ IF RatedMovieIndices = {} THEN stats.avgMovieRating = 0
           ELSE RoundedQuotient(stats.avgMovieRating,
                    10 * SumOver(RatedMovieIndices, [i \in MovieIndices |-> StoredMovies[i].rating]),
                    Cardinality(RatedMovieIndices))
        /\ IF RatedStoredEpisodes = {} THEN stats.avgEpisodeRating = 0
           ELSE RoundedQuotient(stats.avgEpisodeRating,
                    5 * SumOver(RatedStoredEpisodes, [e \in StoredEpisodes |-> e.rating2]),
                    Cardinality(RatedStoredEpisodes))
        /\ IF TimedMovieIndices = {} THEN stats.avgMovieRuntime = 0
           ELSE RoundedQuotient(stats.avgMovieRuntime,
                    SumOver(TimedMovieIndices, [i \in MovieIndices |-> StoredMovies[i].runtime]),
                    Cardinality(TimedMovieIndices))
        /\ IF ReviewedEpisodes = {} THEN stats.avgReviewLength = 0
           ELSE RoundedQuotient(stats.avgReviewLength,
                    SumOver(ReviewedEpisodes, [e \in StoredEpisodes |-> Len(e.review)]),
                    Cardinality(ReviewedEpisodes))
        /\ IF DatedCount < 2 THEN stats.avgPerWeek = 0
           ELSE IF WatchSpan <= HoursPerDay * DaysPerWeek THEN stats.avgPerWeek = 10 * DatedCount
           ELSE RoundedQuotient(stats.avgPerWeek, 10 * DatedCount * HoursPerDay * DaysPerWeek, WatchSpan)

\* a report over a movie without a runtime, an unrated movie, an unrated
\* episode and a blank review, whose dated entries span three weeks
C11_Witness ==
    /\ HasReport
    /\ Len(StoredMovies) = 3
    /\ Cardinality(StoredEpisodes) = 3
    /\ stats.avgMovieRuntime > 0
    /\ stats.avgPerWeek < 10 * DatedCount

------------------------------------------------------------------------------
(* The store: logging again, re-rating and removing *)

StoreMovies ==
    { Movie(21, "Brazil", 8, At(2, 1, 20), 132, <<1985, 2, 20>>, <<"Sci-Fi">>),
      Movie(21, "Brazil", 5, At(2, 1, 20), 132, <<1985, 2, 20>>, <<"Sci-Fi">>),
      Movie(21, "Brazil", 8, At(2, 6, 20), 132, <<1985, 2, 20>>, <<"Sci-Fi">>),
      Movie(22, "Dune", 7, At(2, 1, 20), 137, <<1984, 12, 14>>, <<"Sci-Fi">>) }

StoreEpisodes ==
    { Episode(701, 70, "Andor", 1, 1, 6, At(2, 2, 21), FALSE, <<>>, 40, <<>>, <<>>),
      Episode(701, 70, "Andor", 1, 1, 9, At(2, 5, 21), TRUE, <<>>, 40, <<>>, <<>>),
      Episode(702, 70, "Andor", 1, 2, 0, At(2, 3, 21), FALSE, <<>>, 40, <<>>, <<>>) }

Store == [movies |-> StoreMovies, episodes |-> StoreEpisodes, zones |-> {0}]

StoreRatings == {0, 9}

InitStore == InitWith(Store)

\* the screens remove a logged movie by movieId and watchedDate; the date is
\* optional in the provider
NextStore ==
    \/ \E movie \in Store.movies : addToWatchedMovies(movie)
    \/ \E movie \in Store.movies : removeFromWatchedMovies(movie.movieId, movie.watchedDate)
    \/ \E movie \in Store.movies : removeFromWatchedMovies(movie.movieId, EmptyDate)
    \/ \E movie \in Store.movies, newRating \in StoreRatings :
          updateWatchedMovieRating(movie.movieId, newRating)
    \/ \E episode \in Store.episodes : markEpisodeAsWatched(episode)
    \/ \E episode \in Store.episodes : removeWatchedEpisode(episode.episodeId)

SpecStore == InitStore /\ [][NextStore]_vars

\* the (movieId, watchedDate) pairs of the stored movies
StoredPairs == {<<StoredMovies[i].movieId, StoredMovies[i].watchedDate>> : i \in 1..Len(StoredMovies)}

\* one stored movie per pair, one stored episode per episode identifier
OnePerKey ==
    /\ \A i, j \in 1..Len(StoredMovies) :
          /\ StoredMovies[i].movieId = StoredMovies[j].movieId
          /\ StoredMovies[i].watchedDate = StoredMovies[j].watchedDate
          => i = j
    /\ \A e1, e2 \in StoredEpisodes : e1.episodeId = e2.episodeId => e1 = e2
    /\ Cardinality(StoredEpisodes) = Cardinality(DOMAIN watched)

\* a storage operation adds one pair and keeps every earlier entry, or takes
\* one pair away and keeps the others, or leaves the pairs as they are; the
\* episode identifiers change by at most one
OnePairAtATime ==
    /\ \/ /\ Cardinality(StoredPairs' \ StoredPairs) = 1
          /\ StoredPairs \subseteq StoredPairs'
          /\ Len(StoredMovies') = Len(StoredMovies) + 1
          /\ \A i \in 1..Len(StoredMovies) : StoredMovies'[i] = StoredMovies[i]
       \/ /\ Cardinality(StoredPairs \ StoredPairs') = 1
          /\ StoredPairs' \subseteq StoredPairs
          /\ Len(StoredMovies') = Len(StoredMovies) - 1
          /\ \A i \in 1..Len(StoredMovies') : \E j \in 1..Len(StoredMovies) :
                StoredMovies'[i] = StoredMovies[j]
       \/ /\ StoredPairs' = StoredPairs
          /\ Len(StoredMovies') = Len(StoredMovies)
    /\ LET ids == {e.episodeId : e \in StoredEpisodes}
       IN Cardinality((ids' \ ids) \cup (ids \ ids')) <= 1

\* C12: after any sequence of storage operations the watched movies hold one
\* entry per (movieId, watchedDate) pair added and not removed (logging a
\* movie again with a new timestamp adds an entry and keeps the earlier
\* ones), and the watched episodes hold at most one entry per episode
\* identifier (marking an episode again replaces its entry)
C12_OneEntryPerKey == []OnePerKey /\ [][OnePairAtATime]_vars

\* the same movie is stored under two timestamps, and a re-marked episode
\* holds its second record
C12_Witness ==
    /\ \E i, j \in 1..Len(StoredMovies) :
          /\ StoredMovies[i].movieId = StoredMovies[j].movieId
          /\ StoredMovies[i].watchedDate # StoredMovies[j].watchedDate
    /\ \E e \in StoredEpisodes : e.episodeId = 701 /\ e.rating2 = 9
    /\ Cardinality(StoredEpisodes) = 2

------------------------------------------------------------------------------
(* Raters: stores of up to MaxLogged movies of one rating and a few        *)
(* episodes of one rating, with which the rating rules are exercised       *)

MaxLogged == 11

RaterEpisodeCounts == {0, 1, 3, 6}

InitRaters ==
    \E nM \in 0..MaxLogged, nE \in RaterEpisodeCounts, rating \in {3, 4, 9}, rating2 \in {3, 6, 9} :
        /\ watchedMovies = ProfileMovies(nM, rating, 90, FALSE)
        /\ watched = ProfileEpisodes(nE, rating2, <<>>, 40, FALSE)
        /\ favoriteMovies = {}
        /\ favorites = {}
        /\ tz = 0
        /\ stats = NoStats
        /\ given = NoGiven
        /\ Quiet

NextRaters ==
    \/ loadStats
    \/ onClose

SpecRaters == InitRaters /\ [][NextRaters]_vars

\* the sum of the stored movies' ratings (1..10) and of the stored episodes'
\* doubled ratings
MovieRatingSum == SumOver(MovieIndices, [i \in MovieIndices |-> StoredMovies[i].rating])
EpisodeRating2Sum == SumOver(StoredEpisodes, [e \in StoredEpisodes |-> e.rating2])

\* the combined average on the 5-point scale, as a fraction: the movies' mean
\* halved, the episodes' mean, and the mean of the two when both kinds are stored
UnifiedAverage ==
    LET nM == Len(StoredMovies)
        nE == Cardinality(StoredEpisodes)
    IN IF nM > 0 /\ nE > 0
       THEN [num |-> MovieRatingSum * nE + EpisodeRating2Sum * nM, den |-> 4 * nM * nE]
       ELSE IF nM > 0 THEN [num |-> MovieRatingSum, den |-> 2 * nM]
       ELSE [num |-> EpisodeRating2Sum, den |-> 2 * Max2(nE, 1)]

\* C13: with more than 10 entries and no earlier rule matching, the label is
\* Critic exactly when the combined average on the unified 5-point scale
\* (movie ratings halved) is below 2.5, and Enthusiast exactly when it is
\* above 4.0; 11 movies rated 4/10 and no episode give Critic
C13_UnifiedScale ==
    (HasReport /\ EntryCount > 10 /\ ~(Cardinality(StoredEpisodes) > 3 * Len(StoredMovies))) =>
        /\ stats.personalityType.label = "The Critic"
              <=> 2 * UnifiedAverage.num < 5 * UnifiedAverage.den
        /\ stats.personalityType.label = "The Enthusiast"
              <=> UnifiedAverage.num > 4 * UnifiedAverage.den

------------------------------------------------------------------------------
(* The nine personalities *)

Labels == {RuleOrder[i].label : i \in 1..Len(RuleOrder)} \cup {"The Balanced Viewer"}

\* C14: the classification returns one label of the fixed set of nine, with
\* the emoji and description of that label; it is Newcomer if and only if
\* there is no entry at all, and Balanced Viewer only when none of the eight
\* earlier conditions holds
C14_OneOfNine ==
    HasReport =>
        /\ Cardinality(Labels) = 9
        /\ stats.personalityType.label \in Labels
        /\ stats.personalityType = PersonalityOf(stats.personalityType.label)
        /\ stats.personalityType.label = "The Newcomer" <=> EntryCount = 0
        /\ stats.personalityType.label = "The Balanced Viewer" =>
              /\ \A i \in 1..Len(RuleOrder) : ~StoredConditions[RuleOrder[i].rule]
              /\ EntryCount > 0
              /\ Cardinality(StoredEpisodes) <= 3 * Len(StoredMovies)
              /\ Len(StoredMovies) <= Cardinality(StoredEpisodes)
              /\ Cardinality(StoredGenres) <= 5

\* a viewer with as many movies as episodes, whom no rule matches
C14_Witness ==
    /\ HasReport
    /\ stats.personalityType.label = "The Balanced Viewer"
    /\ Len(StoredMovies) = 3
    /\ Cardinality(StoredEpisodes) = 3

------------------------------------------------------------------------------
(* The Reviewer rule *)

\* none of the rules tried before Reviewer matches the stored entries
NoRuleBeforeReviewer ==
    \A i \in 1..5 : ~StoredConditions[RuleOrder[i].rule]

\* C15: when no earlier rule matches, the label is Reviewer exactly when the
\* reviews reported as totalReviews (the episodes with a non-empty trimmed
\* review, no movie) are more than 30% of all entries
C15_ReviewerCountsTotalReviews ==
    (HasReport /\ NoRuleBeforeReviewer) =>
        /\ stats.totalReviews = Cardinality(ReviewedEpisodes)
        /\ stats.personalityType.label = "The Reviewer"
              <=> 10 * Cardinality(ReviewedEpisodes) > 3 * EntryCount

------------------------------------------------------------------------------
(* Ties: two series binged at the same rate, the one with the higher       *)
(* series identifier watched last                                          *)

TiesEpisodes ==
    { Episode(810 + n, 81, "Dark", 1, n, 0, At(2, 3, 18 + n), FALSE, <<>>, 50, <<>>, <<>>) : n \in 1..3 }
    \cup { Episode(820 + n, 82, "Lost", 1, n, 0, At(2, 5, 18 + n), FALSE, <<>>, 40, <<>>, <<>>) : n \in 1..3 }
    \cup { Episode(824, 82, "Lost", 1, 4, 0, At(2, 7, 12), FALSE, <<>>, 40, <<>>, <<>>) }

Ties == [movies |-> {}, episodes |-> TiesEpisodes, zones |-> {0}]

InitTies == InitWith(Ties)

NextTies ==
    \/ \E episode \in Ties.episodes : markEpisodeAsWatched(episode)
    \/ \E episode \in Ties.episodes : removeWatchedEpisode(episode.episodeId)
    \/ loadStats
    \/ onClose

SpecTies == InitTies /\ [][NextTies]_vars

\* the series binged at the maximal rate
FastestCandidates == {a \in BingeCandidates : \A b \in BingeCandidates : RateAtLeast(a, b)}

\* the position of the first episode of a series in the episodes handed to
\* computeWrapped
FirstPosition(seriesId) ==
    LET at == {i \in 1..Len(given.episodes) : given.episodes[i].seriesId = seriesId}
    IN CHOOSE i \in at : \A j \in at : i <= j

\* C16: when two or more series with at least 3 watched episodes share the
\* maximal binge rate, fastestBinge reports the one whose first episode comes
\* earliest in the episode input sequence, whatever the series identifiers
C16_TieGoesToFirstInInput ==
    (HasReport /\ Cardinality(FastestCandidates) >= 2) =>
        \E a \in FastestCandidates :
            /\ \A b \in FastestCandidates : FirstPosition(a) <= FirstPosition(b)
            /\ stats.fastestBinge # Null
            /\ stats.fastestBinge.name = SeriesName(a)

------------------------------------------------------------------------------
(* The shelf: eight movies, seven of them rated, some equally; a store     *)
(* holds any of them                                                       *)

ShelfMovies ==
    << Movie(31, "Akira", 7, At(3, 8, 20), 124, <<1988, 7, 16>>, <<>>),
       Movie(32, "Babe", 0, At(3, 2, 20), 91, <<1995, 8, 4>>, <<>>),
       Movie(33, "Coco", 9, At(3, 5, 20), 105, <<2017, 11, 22>>, <<>>),
       Movie(34, "Diva", 7, At(3, 1, 20), 117, <<1981, 3, 11>>, <<>>),
       Movie(35, "Elf", 3, At(3, 7, 20), 97, <<2003, 11, 7>>, <<>>),
       Movie(36, "Fury", 9, At(3, 3, 20), 134, <<2014, 10, 17>>, <<>>),
       Movie(37, "Gia", 5, At(3, 6, 20), 120, <<1998, 1, 31>>, <<>>),
       Movie(38, "Hero", 7, At(3, 4, 20), 99, <<2002, 10, 24>>, <<>>) >>

\* the movies of the shelf at the chosen positions, keyed as addToWatchedMovies keys them
ShelfStore(chosen) ==
    LET pos == AscendingSeq(chosen)
    IN [i \in 1..Len(pos) |-> [key |-> MovieKey(ShelfMovies[pos[i]]), entry |-> ShelfMovies[pos[i]]]]

InitShelf ==
    \E chosen \in SUBSET (1..Len(ShelfMovies)) :
        /\ watchedMovies = ShelfStore(chosen)
        /\ watched = <<>>
        /\ favoriteMovies = {}
        /\ favorites = {}
        /\ tz = 0
        /\ stats = NoStats
        /\ given = NoGiven
        /\ Quiet

NextShelf ==
    \/ loadStats
    \/ onClose

SpecShelf == InitShelf /\ [][NextShelf]_vars

\* the positions of the rated movies in the input sequence of computeWrapped
RatedInput == {i \in 1..Len(getWatchedMovies) : getWatchedMovies[i].rating > 0}

\* the position in the input sequence of the movie a card shows (titles are distinct)
InputPosition(card) == CHOOSE i \in 1..Len(getWatchedMovies) : getWatchedMovies[i].title = card.title

\* a list of cards shows distinct rated movies of the input, with their ratings
ShowsRatedMovies(cards) ==
    /\ \A k \in 1..Len(cards) : \E i \in RatedInput :
          /\ cards[k].title = getWatchedMovies[i].title
          /\ cards[k].rating = getWatchedMovies[i].rating
    /\ \A k, l \in 1..Len(cards) : cards[k].title = cards[l].title => k = l

\* the rated movies of the input a list of cards leaves out
LeftOut(cards) == {i \in RatedInput : \A k \in 1..Len(cards) : cards[k].title # getWatchedMovies[i].title}

\* C17: highestRatedMovies holds the min(5, n) best-rated of the n rated movies
\* in non-increasing rating order, equally rated ones in input order;
\* lowestRatedMovies holds the min(5, n) worst-rated in non-decreasing order;
\* unrated movies are in neither; when n <= 5 lowestRatedMovies is
\* highestRatedMovies reversed
C17_HighestAndLowest ==
    HasReport =>
        LET n == Cardinality(RatedInput)
            high == stats.highestRatedMovies
            low == stats.lowestRatedMovies
            size == IF n < 5 THEN n ELSE 5
        IN /\ Len(high) = size
           /\ Len(low) = size
           /\ ShowsRatedMovies(high)
           /\ ShowsRatedMovies(low)
           /\ \A k, l \in 1..size : k < l =>
                 /\ high[k].rating >= high[l].rating
                 /\ low[k].rating <= low[l].rating
                 /\ high[k].rating = high[l].rating => InputPosition(high[k]) < InputPosition(high[l])
           /\ \A i \in LeftOut(high) : \A k \in 1..size : getWatchedMovies[i].rating <= high[k].rating
           /\ \A i \in LeftOut(low) : \A k \in 1..size : getWatchedMovies[i].rating >= low[k].rating
           /\ n <= 5 => low = Reverse(high)

\* seven rated movies and an unrated one: the two lists differ, and the
\* highest-rated list holds equally rated movies
C17_Witness ==
    /\ HasReport
    /\ Cardinality(RatedInput) = 7
    /\ Len(getWatchedMovies) = 8
    /\ stats.highestRatedMovies[1].rating = stats.highestRatedMovies[2].rating
    /\ stats.lowestRatedMovies[1].rating = 3
    /\ stats.highestRatedMovies[5].rating = 7

------------------------------------------------------------------------------
(* The series: seven series, six of them with a rated episode; a store     *)
(* holds any of their episodes                                             *)

SeriesEpisodes ==
    { Episode(911, 91, "Andor", 1, 1, 8, At(3, 1, 21), FALSE, <<>>, 40, <<>>, <<>>),
      Episode(912, 91, "Andor", 1, 2, 0, At(3, 2, 21), FALSE, <<>>, 40, <<>>, <<>>),
      Episode(913, 91, "Andor", 1, 3, 9, At(3, 3, 21), FALSE, <<>>, 40, <<>>, <<>>),
      Episode(921, 92, "Barry", 1, 1, 0, At(3, 4, 21), FALSE, <<>>, 30, <<>>, <<>>),
      Episode(931, 93, "Chuck", 1, 1, 10, At(3, 5, 21), FALSE, <<>>, 42, <<>>, <<>>),
      Episode(941, 94, "Dexter", 1, 1, 6, At(3, 6, 21), FALSE, <<>>, 50, <<>>, <<>>),
      Episode(951, 95, "Elite", 1, 1, 3, At(3, 7, 21), FALSE, <<>>, 50, <<>>, <<>>),
      Episode(961, 96, "Fauda", 1, 1, 8, At(3, 8, 21), FALSE, <<>>, 45, <<>>, <<>>),
      Episode(971, 97, "Girls", 1, 1, 7, At(3, 9, 21), FALSE, <<>>, 30, <<>>, <<>>),
      Episode(972, 97, "Girls", 1, 2, 0, At(3, 10, 21), FALSE, <<>>, 30, <<>>, <<>>) }

\* the chosen episodes, keyed as markEpisodeAsWatched keys them
EpisodeStore(chosen) == [id \in {e.episodeId : e \in chosen} |-> CHOOSE e \in chosen : e.episodeId = id]

InitSeries ==
    \E chosen \in SUBSET SeriesEpisodes :
        /\ watchedMovies = <<>>
        /\ watched = EpisodeStore(chosen)
        /\ favoriteMovies = {}
        /\ favorites = {}
        /\ tz = 0
        /\ stats = NoStats
        /\ given = NoGiven
        /\ Quiet

NextSeries ==
    \/ loadStats
    \/ onClose

SpecSeries == InitSeries /\ [][NextSeries]_vars

\* the rated episodes of a series, and the series that have one
RatedOf(seriesId) == {e \in StoredOf(seriesId) : e.rating2 > 0}
RatedSeries == {id \in StoredSeries : RatedOf(id) # {}}
Rating2SumOf(seriesId) == SumOver(RatedOf(seriesId), [e \in RatedOf(seriesId) |-> e.rating2])

\* the series an entry of highestRatedShows names (series names are distinct)
ListedSeries == {id \in StoredSeries : \E k \in 1..Len(stats.highestRatedShows) :
                    stats.highestRatedShows[k].name = SeriesName(id)}

\* C18: highestRatedShows lists at most 5 series, only series with a rated
\* episode, in non-increasing order of avgRating, which is the mean of the
\* series' rated episodes (in tenths, to the nearest tenth); episodeCount is
\* the number of rated episodes of the series, not of its watched episodes
C18_HighestRatedShows ==
    HasReport =>
        LET shows == stats.highestRatedShows
        IN /\ Len(shows) = (IF Cardinality(RatedSeries) < 5 THEN Cardinality(RatedSeries) ELSE 5)
           /\ \A k, l \in 1..Len(shows) :
                 /\ shows[k].name = shows[l].name => k = l
                 /\ k < l => shows[k].avgRating >= shows[l].avgRating
           /\ \A k \in 1..Len(shows) : \E id \in RatedSeries :
                 /\ shows[k].name = SeriesName(id)
                 /\ shows[k].episodeCount = Cardinality(RatedOf(id))
                 /\ RoundedQuotient(shows[k].avgRating, 5 * Rating2SumOf(id), Cardinality(RatedOf(id)))
           /\ \A id \in RatedSeries \ ListedSeries : \A k \in 1..Len(shows) :
                 10 * Rating2SumOf(id) <= (2 * shows[k].avgRating + 1) * Cardinality(RatedOf(id))

\* every episode is stored: six series have a rated episode, five are listed,
\* and Andor is listed with its two rated episodes of three
C18_Witness ==
    /\ HasReport
    /\ Cardinality(StoredEpisodes) = 10
    /\ Len(stats.highestRatedShows) = 5
    /\ Cardinality(RatedSeries \ ListedSeries) = 1
    /\ \E k \in 1..5 : /\ stats.highestRatedShows[k].name = "Andor"
                       /\ stats.highestRatedShows[k].episodeCount = 2
                       /\ EpisodeCount(91) = 3

------------------------------------------------------------------------------
(* The genres: four movies and three episodes carrying thirteen genres; a  *)
(* store holds any of them                                                 *)

GenreMovies ==
    << Movie(41, "Ronin", 8, At(3, 1, 20), 122, <<1998, 9, 25>>, <<"Action", "Crime", "Drama", "Thriller">>),
       Movie(42, "Speed", 0, At(3, 2, 20), 116, <<1994, 6, 10>>, <<"Action", "Crime", "Romance", "Comedy">>),
       Movie(43, "Tron", 5, At(3, 3, 20), 96, <<1982, 7, 9>>, <<"Action", "Sci-Fi", "Fantasy", "Music">>),
       Movie(44, "Zulu", 9, At(3, 4, 20), 138, <<1964, 1, 22>>, <<"Crime", "War", "History">>) >>

GenreEpisodes ==
    { Episode(981, 98, "Justified", 1, 1, 7, At(3, 5, 21), FALSE, <<>>, 44, <<"Action", "Western">>, <<>>),
      Episode(982, 98, "Justified", 1, 2, 0, At(3, 6, 21), FALSE, <<>>, 44, <<"Drama", "History", "Mystery">>, <<>>),
      Episode(983, 98, "Justified", 1, 3, 6, At(3, 7, 21), FALSE, <<>>, 44, <<"Western", "Action">>, <<>>) }

\* the movies of a list at the chosen positions, keyed as addToWatchedMovies keys them
MovieStore(list, chosen) ==
    LET pos == AscendingSeq(chosen)
    IN [i \in 1..Len(pos) |-> [key |-> MovieKey(list[pos[i]]), entry |-> list[pos[i]]]]

InitGenres ==
    \E chosenMovies \in SUBSET (1..Len(GenreMovies)), chosenEpisodes \in SUBSET GenreEpisodes :
        /\ watchedMovies = MovieStore(GenreMovies, chosenMovies)
        /\ watched = EpisodeStore(chosenEpisodes)
        /\ favoriteMovies = {}
        /\ favorites = {}
        /\ tz = 0
        /\ stats = NoStats
        /\ given = NoGiven
        /\ Quiet

NextGenres ==
    \/ loadStats
    \/ onClose

SpecGenres == InitGenres /\ [][NextGenres]_vars

\* the number of times a genre stands in a list of genre tags
TagsIn(genres, g) == Cardinality({i \in 1..Len(genres) : genres[i] = g})

\* the genre-tag occurrences of a genre over the stored movies and episodes
TagCount(g) ==
    SumOver(MovieIndices, [i \in MovieIndices |-> TagsIn(StoredMovies[i].genres, g)])
    + SumOver(StoredEpisodes, [e \in StoredEpisodes |-> TagsIn(e.genres, g)])

ListedGenres(list) == {list[k].genre : k \in 1..Len(list)}

\* C19: topGenres has at most 10 entries in non-increasing count order; each
\* count is the number of genre-tag occurrences of the genre over movies and
\* episodes together; no genre left out has a higher count than a listed one
C19_TopGenres ==
    HasReport =>
        LET top == stats.topGenres
        IN /\ Len(top) = (IF Cardinality(StoredGenres) < 10 THEN Cardinality(StoredGenres) ELSE 10)
           /\ \A k, l \in 1..Len(top) :
                 /\ top[k].genre = top[l].genre => k = l
                 /\ k < l => top[k].count >= top[l].count
           /\ \A k \in 1..Len(top) :
                 /\ top[k].genre \in StoredGenres
                 /\ top[k].count = TagCount(top[k].genre)
           /\ \A g \in StoredGenres \ ListedGenres(top) : \A k \in 1..Len(top) :
                 TagCount(g) <= top[k].count

\* every entry is stored: thirteen genres, ten listed, and the first genre
\* counted over movies and episodes
C19_Witness ==
    /\ HasReport
    /\ Cardinality(StoredGenres) = 13
    /\ Len(stats.topGenres) = 10
    /\ stats.topGenres[1] = [genre |-> "Action", count |-> 5]
    /\ Len(StoredMovies) = 4
    /\ Cardinality(StoredEpisodes) = 3

------------------------------------------------------------------------------
(* The genres by rating *)

\* the rated stored movies and episodes that carry a genre
RatedMoviesWith(g) == {i \in RatedMovieIndices : TagsIn(StoredMovies[i].genres, g) > 0}
RatedEpisodesWith(g) == {e \in RatedStoredEpisodes : TagsIn(e.genres, g) > 0}
RatedCarriers(g) == Cardinality(RatedMoviesWith(g)) + Cardinality(RatedEpisodesWith(g))

\* twice the sum of the ratings of a genre's rated entries on the 5-point
\* scale: a movie's rating halved and doubled, an episode's rating doubled
GenreRating2Sum(g) ==
    SumOver(RatedMoviesWith(g), [i \in RatedMoviesWith(g) |-> StoredMovies[i].rating])
    + SumOver(RatedEpisodesWith(g), [e \in RatedEpisodesWith(g) |-> e.rating2])

\* C20: genreByAvgRating holds exactly the genres carried by at least 2 rated
\* entries, movies and episodes together; each value is the mean of the
\* genre's rated entries' ratings, movie ratings halved (in tenths, to the
\* nearest tenth); the list is in non-increasing order of the value
C20_GenreByAvgRating ==
    HasReport =>
        LET list == stats.genreByAvgRating
        IN /\ ListedGenres(list) = {g \in StoredGenres : RatedCarriers(g) >= 2}
           /\ Len(list) = Cardinality(ListedGenres(list))
           /\ \A k \in 1..Len(list) :
                 RoundedQuotient(list[k].avgRating, 5 * GenreRating2Sum(list[k].genre),
                                 RatedCarriers(list[k].genre))
           /\ \A k, l \in 1..Len(list) : k < l => list[k].avgRating >= list[l].avgRating

\* every entry is stored: Crime (two rated movies) leads, Action mixes movies
\* and episodes, and Drama, tagged twice but rated once, is not listed
C20_Witness ==
    /\ HasReport
    /\ Len(StoredMovies) = 4
    /\ Cardinality(StoredEpisodes) = 3
    /\ Len(stats.genreByAvgRating) = 3
    /\ stats.genreByAvgRating[1].genre = "Crime"
    /\ "Action" \in ListedGenres(stats.genreByAvgRating)
    /\ TagCount("Drama") = 2
    /\ RatedCarriers("Drama") = 1
    /\ "Drama" \notin ListedGenres(stats.genreByAvgRating)

------------------------------------------------------------------------------
(* The first and the last log *)

\* the stored movies and episodes that carry a watchedDate
DatedMovieIndices == {i \in 1..Len(StoredMovies) : Truthy(StoredMovies[i].watchedDate)}
DatedEpisodes == {e \in StoredEpisodes : Truthy(e.watchedDate)}

\* the title and date of every dated entry
DatedLogs ==
    {[title |-> StoredMovies[i].title, date |-> StoredMovies[i].watchedDate] : i \in DatedMovieIndices}
    \cup {[title |-> EpisodeTitle(e), date |-> e.watchedDate] : e \in DatedEpisodes}

\* C21: firstLog is a dated entry whose timestamp is <= that of every other
\* dated entry and lastLog one whose timestamp is >= that of every other dated
\* entry, movies and episodes together; both are null exactly when there is
\* no dated entry, and with a single dated entry they are the same entry
C21_FirstAndLastLog ==
    HasReport =>
        /\ stats.firstLog = Null <=> DatedLogs = {}
        /\ stats.lastLog = Null <=> DatedLogs = {}
        /\ DatedLogs # {} =>
              /\ stats.firstLog \in DatedLogs
              /\ stats.lastLog \in DatedLogs
              /\ \A x \in DatedLogs : /\ getTime(stats.firstLog.date) <= getTime(x.date)
                                      /\ getTime(x.date) <= getTime(stats.lastLog.date)
        /\ Cardinality(DatedMovieIndices) + Cardinality(DatedEpisodes) = 1 =>
              stats.firstLog = stats.lastLog

\* a movie between episodes, and an undated episode: the first log is the
\* episode of January 31, the last one an episode after the movie
C21_Witness ==
    /\ HasReport
    /\ Cardinality(DatedMovieIndices) = 1
    /\ Cardinality(DatedEpisodes) >= 3
    /\ 212 \in DOMAIN watched
    /\ stats.firstLog = [title |-> "Lost S1E2", date |-> At(1, 31, 23)]
    /\ getTime(stats.lastLog.date) > getTime(At(2, 4, 18))

------------------------------------------------------------------------------
(* The calendar: two movies and six episodes over January, February and    *)
(* March, two days and two months holding as many entries as each other    *)

CalendarMovies ==
    { Movie(51, "Ran", 9, At(2, 10, 18), 162, <<1985, 6, 1>>, <<>>),
      Movie(52, "Big", 7, At(1, 30, 18), 104, <<1988, 6, 3>>, <<>>) }

CalendarEpisodes ==
    { Episode(991, 99, "Dark", 1, 1, 0, At(1, 30, 21), FALSE, <<>>, 45, <<>>, <<>>),
      Episode(992, 99, "Dark", 1, 2, 0, At(2, 10, 21), FALSE, <<>>, 45, <<>>, <<>>),
      Episode(993, 99, "Dark", 1, 3, 0, At(2, 11, 21), FALSE, <<>>, 45, <<>>, <<>>),
      Episode(994, 99, "Dark", 1, 4, 0, At(1, 12, 21), FALSE, <<>>, 45, <<>>, <<>>),
      Episode(995, 99, "Dark", 1, 5, 0, At(3, 20, 21), FALSE, <<>>, 45, <<>>, <<>>),
      Episode(996, 99, "Dark", 1, 6, 0, EmptyDate, FALSE, <<>>, 45, <<>>, <<>>) }

Calendar == [movies |-> CalendarMovies, episodes |-> CalendarEpisodes, zones |-> {0}]

InitCalendar == InitWith(Calendar)

NextCalendar ==
    \/ \E movie \in Calendar.movies : addToWatchedMovies(movie)
    \/ \E movie \in Calendar.movies : removeFromWatchedMovies(movie.movieId, movie.watchedDate)
    \/ \E episode \in Calendar.episodes : markEpisodeAsWatched(episode)
    \/ \E episode \in Calendar.episodes : removeWatchedEpisode(episode.episodeId)
    \/ loadStats
    \/ onClose

SpecCalendar == InitCalendar /\ [][NextCalendar]_vars

------------------------------------------------------------------------------
(* The busiest day and month *)

\* the dates met when scanning the movies in input order, then the episodes
\* in input order
InputDates ==
    SelectSeq([i \in 1..Len(getWatchedMovies) |-> getWatchedMovies[i].watchedDate]
              \o [i \in 1..Len(getAllWatchedEpisodes) |-> getAllWatchedEpisodes[i].watchedDate],
              Truthy)

\* the entries of the calendar day, and of the year-month, of the i-th date
DayCountAt(i) == Cardinality({j \in 1..Len(InputDates) : getDateKey(InputDates[j]) = getDateKey(InputDates[i])})
MonthCountAt(i) ==
    Cardinality({j \in 1..Len(InputDates) : getMonthKey(InputDates[j], tz) = getMonthKey(InputDates[i], tz)})

\* the positions whose day, or month, has the maximal count
BusiestDayPositions == {i \in 1..Len(InputDates) : \A j \in 1..Len(InputDates) : DayCountAt(j) <= DayCountAt(i)}
BusiestMonthPositions == {i \in 1..Len(InputDates) : \A j \in 1..Len(InputDates) : MonthCountAt(j) <= MonthCountAt(i)}

FirstOf(positions) == CHOOSE i \in positions : \A j \in positions : i <= j

\* C22: busiestDay and busiestMonth report a calendar day and a year-month
\* whose entry count is maximal; among several with the maximal count, the
\* one met first when scanning the movies in input order and then the
\* episodes in input order
C22_BusiestDayAndMonth ==
    HasReport =>
        IF Len(InputDates) = 0 THEN stats.busiestDay = Null /\ stats.busiestMonth = Null
        ELSE /\ stats.busiestDay =
                  [date |-> getDateKey(InputDates[FirstOf(BusiestDayPositions)]),
                   count |-> DayCountAt(FirstOf(BusiestDayPositions))]
             /\ stats.busiestMonth =
                  [month |-> getMonthName(getMonthKey(InputDates[FirstOf(BusiestMonthPositions)], tz)),
                   count |-> MonthCountAt(FirstOf(BusiestMonthPositions))]

\* two days and two months share the maximal count
C22_Witness ==
    /\ HasReport
    /\ Len(InputDates) >= 4
    /\ \E i, j \in BusiestDayPositions : getDateKey(InputDates[i]) # getDateKey(InputDates[j])
    /\ \E i, j \in BusiestMonthPositions : getMonthKey(InputDates[i], tz) # getMonthKey(InputDates[j], tz)
    /\ stats.busiestDay.count = 2

------------------------------------------------------------------------------
(* The entries per week *)

HoursPerWeek == HoursPerDay * DaysPerWeek

\* C23: avgPerWeek (in tenths) is 0 when fewer than 2 entries carry a date;
\* otherwise it is the number of dated entries divided by max(1, weeks between
\* the earliest and the latest entry date), to the nearest tenth: it never
\* exceeds the number of dated entries and equals it when all entries fall
\* within one week
C23_AvgPerWeek ==
    HasReport =>
        IF DatedCount < 2 THEN stats.avgPerWeek = 0
        ELSE /\ stats.avgPerWeek <= 10 * DatedCount
             /\ WatchSpan <= HoursPerWeek => stats.avgPerWeek = 10 * DatedCount
             /\ WatchSpan > HoursPerWeek =>
                   RoundedQuotient(stats.avgPerWeek, 10 * DatedCount * HoursPerWeek, WatchSpan)

\* seven dated entries from January 12 to March 20, and an undated one
C23_Witness ==
    /\ HasReport
    /\ DatedCount = 7
    /\ 996 \in DOMAIN watched
    /\ WatchSpan > 9 * HoursPerWeek
    /\ stats.avgPerWeek = 7

------------------------------------------------------------------------------
(* The seasons: six series, some watched over two seasons; a store holds   *)
(* any of their episodes                                                   *)

SeasonsEpisodes ==
    { Episode(611, 61, "Andor", 1, 1, 0, At(3, 1, 21), FALSE, <<>>, 40, <<>>, <<>>),
      Episode(612, 61, "Andor", 1, 2, 0, At(3, 2, 21), FALSE, <<>>, 40, <<>>, <<>>),
      Episode(613, 61, "Andor", 2, 1, 0, At(3, 3, 21), FALSE, <<>>, 40, <<>>, <<>>),
      Episode(621, 62, "Barry", 1, 1, 0, At(3, 4, 21), FALSE, <<>>, 30, <<>>, <<>>),
      Episode(622, 62, "Barry", 2, 1, 0, At(3, 5, 21), FALSE, <<>>, 30, <<>>, <<>>),
      Episode(631, 63, "Chuck", 1, 1, 0, At(3, 6, 21), FALSE, <<>>, 42, <<>>, <<>>),
      Episode(632, 63, "Chuck", 1, 2, 0, At(3, 7, 21), FALSE, <<>>, 42, <<>>, <<>>),
      Episode(641, 64, "Dexter", 3, 1, 0, At(3, 8, 21), FALSE, <<>>, 50, <<>>, <<>>),
      Episode(651, 65, "Elite", 1, 1, 0, At(3, 9, 21), FALSE, <<>>, 50, <<>>, <<>>),
      Episode(661, 66, "Fauda", 1, 1, 0, At(3, 10, 21), FALSE, <<>>, 45, <<>>, <<>>) }

InitSeasons ==
    \E chosen \in SUBSET SeasonsEpisodes :
        /\ watchedMovies = <<>>
        /\ watched = EpisodeStore(chosen)
        /\ favoriteMovies = {}
        /\ favorites = {}
        /\ tz = 0
        /\ stats = NoStats
        /\ given = NoGiven
        /\ Quiet

NextSeasons ==
    \/ loadStats
    \/ onClose

SpecSeasons == InitSeasons /\ [][NextSeasons]_vars

\* the (series, season) pairs of the stored episodes
StoredSeasons == {<<e.seriesId, e.seasonNumber>> : e \in StoredEpisodes}

\* the series an entry of showsWithMostEpisodes names (series names are distinct)
MostWatchedSeries == {id \in StoredSeries : \E k \in 1..Len(stats.showsWithMostEpisodes) :
                         stats.showsWithMostEpisodes[k].name = SeriesName(id)}

\* C24: uniqueShowsWatched is the number of distinct series among the watched
\* episodes, totalSeasonsCompleted the number of distinct (series, season)
\* pairs among them, showsWithMostEpisodes the at most 5 series with the most
\* watched episodes in non-increasing count order; so uniqueShowsWatched <=
\* totalSeasonsCompleted <= totalEpisodes
C24_ShowsAndSeasons ==
    HasReport =>
        LET most == stats.showsWithMostEpisodes
        IN /\ stats.uniqueShowsWatched = Cardinality(StoredSeries)
           /\ stats.totalSeasonsCompleted = Cardinality(StoredSeasons)
           /\ stats.totalEpisodes = Cardinality(StoredEpisodes)
           /\ stats.uniqueShowsWatched <= stats.totalSeasonsCompleted
           /\ stats.totalSeasonsCompleted <= stats.totalEpisodes
           /\ Len(most) = (IF Cardinality(StoredSeries) < 5 THEN Cardinality(StoredSeries) ELSE 5)
           /\ \A k, l \in 1..Len(most) :
                 /\ most[k].name = most[l].name => k = l
                 /\ k < l => most[k].count >= most[l].count
           /\ \A k \in 1..Len(most) : \E id \in StoredSeries :
                 most[k].name = SeriesName(id) /\ most[k].count = EpisodeCount(id)
           /\ \A id \in StoredSeries \ MostWatchedSeries : \A k \in 1..Len(most) :
                 EpisodeCount(id) <= most[k].count

\* every episode is stored: six series, eight seasons, ten episodes, five
\* series listed
C24_Witness ==
    /\ HasReport
    /\ stats.uniqueShowsWatched = 6
    /\ stats.totalSeasonsCompleted = 8
    /\ stats.totalEpisodes = 10
    /\ Len(stats.showsWithMostEpisodes) = 5
    /\ stats.showsWithMostEpisodes[1] = [name |-> "Andor", count |-> 3]

------------------------------------------------------------------------------
(* The decades: eight movies, two without a release year that can be read, *)
(* some released in the same year; a store holds any of them               *)

DecadeMovies ==
    << Movie(71, "Alien", 8, At(3, 1, 20), 117, <<1979, 5, 25>>, <<>>),
       Movie(72, "Brazil", 8, At(3, 2, 20), 132, <<1985, 2, 20>>, <<>>),
       Movie(73, "Clue", 3, At(3, 3, 20), 94, <<1985, 12, 13>>, <<>>),
       Movie(74, "Dune", 7, At(3, 4, 20), 137, <<1984, 12, 14>>, <<>>),
       Movie(75, "Eden", 5, At(3, 5, 20), 90, <<>>, <<>>),
       Movie(76, "Fargo", 9, At(3, 6, 20), 98, <<1996, 3, 8>>, <<>>),
       Movie(77, "Gilda", 6, At(3, 7, 20), 110, <<-1>>, <<>>),
       Movie(78, "Hair", 6, At(3, 8, 20), 121, <<1979, 3, 14>>, <<>>) >>

InitDecades ==
    \E chosen \in SUBSET (1..Len(DecadeMovies)) :
        /\ watchedMovies = MovieStore(DecadeMovies, chosen)
        /\ watched = <<>>
        /\ favoriteMovies = {}
        /\ favorites = {}
        /\ tz = 0
        /\ stats = NoStats
        /\ given = NoGiven
        /\ Quiet

NextDecades ==
    \/ loadStats
    \/ onClose

SpecDecades == InitDecades /\ [][NextDecades]_vars

\* the positions, in the input sequence, of the movies with a release year
\* that can be read, and the year of each
YearedInput == {i \in 1..Len(getWatchedMovies) :
                   /\ Len(getWatchedMovies[i].releaseDate) > 0
                   /\ getWatchedMovies[i].releaseDate[1] >= 0}
YearAt(i) == getWatchedMovies[i].releaseDate[1]

\* the first position, in input order, of a movie of the given year
FirstOfYear(year) == FirstOf({i \in YearedInput : YearAt(i) = year})

OldestYear == CHOOSE y \in {YearAt(i) : i \in YearedInput} : \A i \in YearedInput : y <= YearAt(i)
NewestYear == CHOOSE y \in {YearAt(i) : i \in YearedInput} : \A i \in YearedInput : YearAt(i) <= y

\* C25: each movie with a parsable release year is counted in exactly one
\* decadeBreakdown bucket, that of year - (year mod 10), and the counts sum to
\* the number of such movies; oldestMovie and newestMovie carry the minimum
\* and the maximum release year over them, with the title of the first such
\* movie in input order; both are null exactly when no movie has a parsable
\* release year
C25_Decades ==
    HasReport =>
        LET buckets == stats.decadeBreakdown
        IN /\ \A k, l \in 1..Len(buckets) : buckets[k].key = buckets[l].key => k = l
           /\ \A k \in 1..Len(buckets) :
                 /\ buckets[k].count >= 1
                 /\ buckets[k].count =
                       Cardinality({i \in YearedInput : YearAt(i) - (YearAt(i) % 10) = buckets[k].key})
           /\ \A i \in YearedInput : \E k \in 1..Len(buckets) : buckets[k].key = YearAt(i) - (YearAt(i) % 10)
           /\ SumOver(1..Len(buckets), [k \in 1..Len(buckets) |-> buckets[k].count]) = Cardinality(YearedInput)
           /\ stats.oldestMovie = Null <=> YearedInput = {}
           /\ stats.newestMovie = Null <=> YearedInput = {}
           /\ YearedInput # {} =>
                 /\ stats.oldestMovie = [title |-> getWatchedMovies[FirstOfYear(OldestYear)].title,
                                         year |-> OldestYear]
                 /\ stats.newestMovie = [title |-> getWatchedMovies[FirstOfYear(NewestYear)].title,
                                         year |-> NewestYear]
                 /\ stats.oldestMovie.year <= stats.newestMovie.year

\* every movie is stored: six of eight have a release year, two share the
\* oldest one, and the one watched last, first in the input, is reported
C25_Witness ==
    /\ HasReport
    /\ Len(getWatchedMovies) = 8
    /\ Cardinality(YearedInput) = 6
    /\ Len(stats.decadeBreakdown) = 3
    /\ stats.oldestMovie = [title |-> "Hair", year |-> 1979]
    /\ stats.newestMovie = [title |-> "Fargo", year |-> 1996]

------------------------------------------------------------------------------
(* The monthly activity *)

\* the dated entries that fall in a year-month
EntriesInMonth(key) == Cardinality({i \in 1..Len(InputDates) : getMonthKey(InputDates[i], tz) = key})

\* C26: monthlyActivity has a key only for the year-months in which a dated
\* entry falls, every value is at least 1 and counts the entries of its
\* month, the values sum to the number of dated entries, and
\* busiestMonth.count is the largest value
C26_MonthlyActivity ==
    HasReport =>
        LET months == stats.monthlyActivity
            positions == 1..Len(months)
        IN /\ \A k, l \in positions : months[k].key = months[l].key => k = l
           /\ \A k \in positions :
                 /\ months[k].count >= 1
                 /\ months[k].count = EntriesInMonth(months[k].key)
           /\ \A i \in 1..Len(InputDates) : \E k \in positions : months[k].key = getMonthKey(InputDates[i], tz)
           /\ SumOver(positions, [k \in positions |-> months[k].count]) = DatedCount
           /\ IF positions = {} THEN stats.busiestMonth = Null
              ELSE /\ \A k \in positions : months[k].count <= stats.busiestMonth.count
                   /\ \E k \in positions : months[k].count = stats.busiestMonth.count

\* entries in January and March and none in February: two keys
C26_Witness ==
    /\ HasReport
    /\ Len(stats.monthlyActivity) = 2
    /\ \A k \in 1..2 : stats.monthlyActivity[k].key.month \in {1, 3}
    /\ DatedCount = 4
    /\ stats.busiestMonth.count = 3
    /\ 996 \in DOMAIN watched

------------------------------------------------------------------------------
(* tmdb service: the concurrency limiter of the IMDb lookups *)

MAX_CONCURRENT == 3

\* how many getIMDbEpisodeRating calls the screens make
MaxCallers == 5

Callers == 1..MaxCallers

\* queue.pop(): the resolver queued last
LastInQueue(q) == q[Len(q)]

\* queue.shift(): the resolver queued first
NextInQueue(q) == Head(q)

\* withConcurrencyLimit up to its first await: with the limit reached the
\* caller pushes its resolver on the queue and waits, otherwise it counts
\* itself in and starts fn
withConcurrencyLimit(c) ==
    /\ calls[c].pc = "idle"
    /\ IF activeCount >= MAX_CONCURRENT
       THEN /\ queue' = Append(queue, c)
            /\ calls' = [calls EXCEPT ![c] = [pc |-> "queued", waited |-> TRUE]]
            /\ UNCHANGED activeCount
       ELSE /\ activeCount' = activeCount + 1
            /\ calls' = [calls EXCEPT ![c].pc = "running"]
            /\ UNCHANGED queue
    /\ UNCHANGED <<storeVars, cacheVars, tasks>>

\* the continuation of a caller whose resolver was called: it runs as a job
\* of its own, after whatever was scheduled before it, counts itself in and
\* starts fn
resume(c) ==
    /\ calls[c].pc = "woken"
    /\ activeCount' = activeCount + 1
    /\ calls' = [calls EXCEPT ![c].pc = "running"]
    /\ UNCHANGED <<queue, storeVars, cacheVars, tasks>>

\* fn settles, returning or throwing, and the finally block runs: the caller
\* counts itself out and calls the resolver at the front of the queue
finish(c) ==
    /\ calls[c].pc = "running"
    /\ activeCount' = activeCount - 1
    /\ IF Len(queue) > 0
       THEN LET next == NextInQueue(queue)
            IN /\ queue' = SelectSeq(queue, LAMBDA x : x # next)
               /\ calls' = [calls EXCEPT ![c].pc = "done", ![next].pc = "woken"]
       ELSE /\ calls' = [calls EXCEPT ![c].pc = "done"]
            /\ UNCHANGED queue
    /\ UNCHANGED <<storeVars, cacheVars, tasks>>

InitLimiter ==
    /\ watchedMovies = <<>>
    /\ watched = <<>>
    /\ favoriteMovies = {}
    /\ favorites = {}
    /\ tz = 0
    /\ stats = NoStats
    /\ given = NoGiven
    /\ activeCount = 0
    /\ queue = <<>>
    /\ calls = [c \in Callers |-> [pc |-> "idle", waited |-> FALSE]]
    /\ cache = <<>>
    /\ now = 0
    /\ lookups = <<>>
    /\ tasks = <<>>

NextLimiter ==
    \/ \E c \in Callers : withConcurrencyLimit(c)
    \/ \E c \in Callers : resume(c)
    \/ \E c \in Callers : finish(c)

SpecLimiter == InitLimiter /\ [][NextLimiter]_vars

\* the lookups running inside the limiter
Running == {c \in Callers : calls[c].pc = "running"}

\* C27: under every interleaving of concurrent getIMDbEpisodeRating calls,
\* calls arriving between the end of a lookup and the resumption of the
\* caller it wakes included, no more than MAX_CONCURRENT lookups run inside
\* the limiter and activeCount is never below 0
C27_LimitRespected ==
    /\ Cardinality(Running) <= MAX_CONCURRENT
    /\ activeCount >= 0


\* every lookup handed to the limiter settles, and the continuation of a
\* caller whose resolver was called is run by the job queue
SpecLimiterLive ==
    /\ InitLimiter
    /\ [][NextLimiter]_vars
    /\ \A c \in Callers : WF_vars(resume(c))
    /\ \A c \in Callers : WF_vars(finish(c))

\* a step that releases caller c from the queue
Released(c) == calls[c].pc = "queued" /\ calls'[c].pc = "woken"

\* the caller released is the one at the front of the queue, which holds
\* the waiting callers in the order of their arrival
ReleasedInQueueOrder ==
    \A c \in Callers : Released(c) => c = queue[1]

\* no lookup is running and none is about to start
LookupsFinished == \A c \in Callers : calls[c].pc \notin {"running", "woken"}

\* C28: when every lookup handed to the limiter settles, every caller queued
\* at the limit is eventually released and runs its lookup, callers are
\* released in the order in which they were queued, and once all lookups
\* have finished activeCount is 0 and the queue is empty
C28_QueuedCallersRun ==
    /\ \A c \in Callers : (calls[c].pc = "queued") ~> (calls[c].pc = "running")
    /\ [][ReleasedInQueueOrder]_vars
    /\ [](LookupsFinished => activeCount = 0 /\ queue = <<>>)

\* two callers were queued at the limit, and every lookup has finished
C28_Witness ==
    /\ \A c \in Callers : calls[c].pc = "done"
    /\ Cardinality({c \in Callers : calls[c].waited}) = 2
    /\ activeCount = 0

------------------------------------------------------------------------------
(* tmdb service: the in-memory cache of the metadata client *)

\* time to live of a cache entry, in minutes (5 * 60 * 1000 ms)
CACHE_TTL == 5

\* the last minute of the clock
MaxClock == 7

\* the movies whose details are asked for; the cache key is movie_<id>
MovieKeys == {1, 2}

\* the screens that ask for details at the same time
Clients == {1, 2}

NoLookup == [pc |-> "idle", key |-> 0, result |-> Null, from |-> "none", at |-> 0]

\* an entry that counts as live even at an age of exactly CACHE_TTL
FreshInclusive(key) == key \in DOMAIN cache /\ now - cache[key].timestamp <= CACHE_TTL

\* getCached's test: entry && Date.now() - entry.timestamp < CACHE_TTL
Fresh(key) == key \in DOMAIN cache /\ now - cache[key].timestamp < CACHE_TTL

\* getCached's value: the entry's data, or null
getCached(key) == IF Fresh(key) THEN cache[key].data ELSE Null

\* the cache after getCached: an entry that is not live is deleted
cacheAfterGet(key) ==
    IF Fresh(key) THEN cache
    ELSE [k \in DOMAIN cache \ {key} |-> cache[k]]

\* setCache: the entry is stamped with the current time
setCache(key, data) ==
    [k \in DOMAIN cache \cup {key} |->
        IF k = key THEN [data |-> data, timestamp |-> now] ELSE cache[k]]

\* what the server answers for a movie at the current time
responseData(key) == [id |-> key, version |-> now]

\* getMovieDetails up to its await: a live entry is returned at once,
\* otherwise the request is sent
getMovieDetails(c, movieId) ==
    /\ lookups[c].pc # "waiting"
    /\ LET cached == getCached(movieId)
       IN lookups' = [lookups EXCEPT ![c] =
              IF cached # Null
              THEN [pc |-> "done", key |-> movieId, result |-> cached, from |-> "cache", at |-> now]
              ELSE [pc |-> "waiting", key |-> movieId, result |-> Null, from |-> "none", at |-> now]]
    /\ cache' = cacheAfterGet(movieId)
    /\ UNCHANGED <<now, storeVars, limiterVars, tasks>>

\* the request settles: the data of a successful response is stored and
\* returned, a failure is caught and null returned
respond(c, ok) ==
    /\ lookups[c].pc = "waiting"
    /\ IF ok
       THEN /\ cache' = setCache(lookups[c].key, responseData(lookups[c].key))
            /\ lookups' = [lookups EXCEPT ![c] =
                   [@ EXCEPT !.pc = "done", !.result = responseData(lookups[c].key),
                             !.from = "fetch", !.at = now]]
       ELSE /\ cache' = cache
            /\ lookups' = [lookups EXCEPT ![c] =
                   [@ EXCEPT !.pc = "done", !.result = Null, !.from = "fetch", !.at = now]]
    /\ UNCHANGED <<now, storeVars, limiterVars, tasks>>

\* a minute passes
tick ==
    /\ now < MaxClock
    /\ now' = now + 1
    /\ UNCHANGED <<cache, lookups, storeVars, limiterVars, tasks>>

InitCache ==
    /\ watchedMovies = <<>>
    /\ watched = <<>>
    /\ favoriteMovies = {}
    /\ favorites = {}
    /\ tz = 0
    /\ stats = NoStats
    /\ given = NoGiven
    /\ activeCount = 0
    /\ queue = <<>>
    /\ calls = <<>>
    /\ cache = <<>>
    /\ now = 0
    /\ lookups = [c \in Clients |-> NoLookup]
    /\ tasks = <<>>

NextCache ==
    \/ \E c \in Clients, movieId \in MovieKeys : getMovieDetails(c, movieId)
    \/ \E c \in Clients, ok \in BOOLEAN : respond(c, ok)
    \/ tick

SpecCache == InitCache /\ [][NextCache]_vars

\* a value returned from the cache is the answer to a request for the same
\* key, stored less than CACHE_TTL before it was returned
ServedFresh ==
    \A c \in Clients :
        lookups[c].from = "cache" =>
            /\ lookups[c].result # Null
            /\ lookups[c].result.id = lookups[c].key
            /\ lookups[c].result.version <= lookups[c].at
            /\ lookups[c].at - lookups[c].result.version < CACHE_TTL

\* every entry holds the answer to a request for its key, stamped with the
\* time at which the answer arrived
StoredBySuccess ==
    \A k \in DOMAIN cache :
        /\ cache[k].data # Null
        /\ cache[k].data.id = k
        /\ cache[k].data.version = cache[k].timestamp

\* a request that fails stores nothing
FailureNotStored ==
    \A c \in Clients :
        (lookups[c].pc = "waiting" /\ lookups'[c].pc = "done" /\ lookups'[c].result = Null)
            => cache' = cache

\* a call that finds no entry, or one as old as CACHE_TTL, sends a request
\* and leaves no entry for the key
MissSendsRequest ==
    \A c \in Clients :
        (lookups[c].pc # "waiting" /\ lookups'[c] # lookups[c]) =>
            LET k == lookups'[c].key
            IN IF k \in DOMAIN cache /\ now - cache[k].timestamp < CACHE_TTL
               THEN lookups'[c].pc = "done" /\ lookups'[c].result = cache[k].data /\ cache' = cache
               ELSE lookups'[c].pc = "waiting" /\ k \notin DOMAIN cache'

\* C29: the cache only returns a value stored by a successful fetch for the
\* same key less than 5 minutes earlier; a failed fetch is never stored, so
\* the next call for the key sends a new request, and an entry 5 minutes old
\* or older is deleted on lookup and treated as a miss
C29_CacheServesOnlyFreshData ==
    /\ [](ServedFresh /\ StoredBySuccess)
    /\ [][FailureNotStored /\ MissSendsRequest]_vars

\* one screen was served an entry stored 4 minutes before; the other asked
\* after 5 minutes or more, its request failed and left no entry for its key
C29_Witness ==
    /\ \E c \in Clients :
           /\ lookups[c].from = "cache"
           /\ lookups[c].at - lookups[c].result.version = CACHE_TTL - 1
    /\ \E c \in Clients :
           /\ lookups[c].from = "fetch"
           /\ lookups[c].result = Null
           /\ lookups[c].key \notin DOMAIN cache
           /\ now >= CACHE_TTL

------------------------------------------------------------------------------
(* StorageProvider: two mutations in flight at once *)

\* what is stored when the two mutations are issued
RaceStart ==
    [movies |-> << [key |-> MovieKey(Movie(21, "Brazil", 8, At(2, 1, 20), 132, <<1985, 2, 20>>, <<"Sci-Fi">>)),
                    entry |-> Movie(21, "Brazil", 8, At(2, 1, 20), 132, <<1985, 2, 20>>, <<"Sci-Fi">>)] >>,
     episodes |-> [id \in {701} |->
                    Episode(701, 70, "Andor", 1, 1, 6, At(2, 2, 21), FALSE, <<>>, 40, <<>>, <<>>)]]

\* the mutations a screen can issue
RaceMutations ==
    << [op |-> "markEpisodeAsWatched",
        episode |-> Episode(702, 70, "Andor", 1, 2, 8, At(2, 3, 21), FALSE, <<>>, 40, <<>>, <<>>)],
       [op |-> "markEpisodeAsWatched",
        episode |-> Episode(703, 70, "Andor", 1, 3, 9, At(2, 4, 21), TRUE, <<>>, 40, <<>>, <<>>)],
       [op |-> "markEpisodeAsWatched",
        episode |-> Episode(701, 70, "Andor", 1, 1, 9, At(2, 5, 21), TRUE, <<>>, 40, <<>>, <<>>)],
       [op |-> "addToWatchedMovies",
        movie |-> Movie(22, "Dune", 7, At(2, 1, 20), 137, <<1984, 12, 14>>, <<"Sci-Fi">>)],
       [op |-> "addToWatchedMovies",
        movie |-> Movie(21, "Brazil", 8, At(2, 6, 20), 132, <<1985, 2, 20>>, <<"Sci-Fi">>)],
       [op |-> "removeFromWatchedMovies", movieId |-> 21, watchedDate |-> At(2, 1, 20)],
       [op |-> "removeFromWatchedMovies", movieId |-> 22, watchedDate |-> At(2, 1, 20)] >>

\* the two calls in flight
Tasks == {1, 2}

OnMovies(m) == RaceMutations[m].op # "markEpisodeAsWatched"

\* watched[episode.episodeId] = episode, on the object that was read
episodesWith(read, episode) ==
    [id \in DOMAIN read \cup {episode.episodeId} |->
        IF id = episode.episodeId THEN episode ELSE read[id]]

\* watched[`${movie.movieId}_${movie.watchedDate}`] = movie, on the object
\* that was read
moviesWith(read, movie) ==
    IF \E i \in 1..Len(read) : read[i].key = MovieKey(movie)
    THEN [i \in 1..Len(read) |->
             IF read[i].key = MovieKey(movie)
             THEN [key |-> MovieKey(movie), entry |-> movie] ELSE read[i]]
    ELSE Append(read, [key |-> MovieKey(movie), entry |-> movie])

\* the positions of the keys removeFromWatchedMovies looks among
keysToDelete(read, movieId, watchedDate) ==
    {i \in 1..Len(read) :
        /\ read[i].entry.movieId = movieId
        /\ (Truthy(watchedDate) => read[i].entry.watchedDate = watchedDate)}

\* delete watched[keyToDelete], on the object that was read
moviesWithout(read, movieId, watchedDate) ==
    LET hits == keysToDelete(read, movieId, watchedDate)
        keyToDelete == CHOOSE i \in hits : \A j \in hits : i <= j
    IN IF hits = {} THEN read
       ELSE SubSeq(read, 1, keyToDelete - 1) \o SubSeq(read, keyToDelete + 1, Len(read))

\* whether the mutation calls setData after its read
Writes(m, read) ==
    RaceMutations[m].op = "removeFromWatchedMovies" =>
        keysToDelete(read, RaceMutations[m].movieId, RaceMutations[m].watchedDate) # {}

\* the object the mutation hands to setData
Mutated(m, read) ==
    LET mutation == RaceMutations[m]
    IN CASE mutation.op = "markEpisodeAsWatched" -> episodesWith(read, mutation.episode)
         [] mutation.op = "addToWatchedMovies" -> moviesWith(read, mutation.movie)
         [] OTHER -> moviesWithout(read, mutation.movieId, mutation.watchedDate)

\* the mutation is called and AsyncStorage.getItem answers: the mutation
\* changes its own copy of the collection and, unless it found nothing to
\* delete, hands it to setData
getData(t, m) ==
    /\ tasks[t].pc = "idle"
    /\ LET read == IF OnMovies(m) THEN watchedMovies ELSE watched
       IN tasks' = [tasks EXCEPT ![t] =
              [pc |-> IF Writes(m, read) THEN "writing" ELSE "done",
               mutation |-> m,
               value |-> Mutated(m, read)]]
    /\ UNCHANGED <<watchedMovies, watched, favoriteMovies, favorites, tz, stats, given,
                   limiterVars, cacheVars>>

\* AsyncStorage.setItem stores the copy, replacing the collection
setData(t) ==
    /\ tasks[t].pc = "writing"
    /\ IF OnMovies(tasks[t].mutation)
       THEN watchedMovies' = tasks[t].value /\ UNCHANGED watched
       ELSE watched' = tasks[t].value /\ UNCHANGED watchedMovies
    /\ tasks' = [tasks EXCEPT ![t].pc = "done"]
    /\ UNCHANGED <<favoriteMovies, favorites, tz, stats, given, limiterVars, cacheVars>>

InitRace ==
    /\ watchedMovies = RaceStart.movies
    /\ watched = RaceStart.episodes
    /\ favoriteMovies = {}
    /\ favorites = {}
    /\ tz = 0
    /\ stats = NoStats
    /\ given = NoGiven
    /\ activeCount = 0
    /\ queue = <<>>
    /\ calls = <<>>
    /\ cache = <<>>
    /\ now = 0
    /\ lookups = <<>>
    /\ tasks = [t \in Tasks |-> [pc |-> "idle", mutation |-> 0, value |-> <<>>]]

NextRace ==
    \/ \E t \in Tasks, m \in 1..Len(RaceMutations) : getData(t, m)
    \/ \E t \in Tasks : setData(t)

SpecRace == InitRace /\ [][NextRace]_vars

\* the store after the mutation has run alone on it
After(m, store) ==
    IF OnMovies(m)
    THEN [store EXCEPT !.movies = Mutated(m, store.movies)]
    ELSE [store EXCEPT !.episodes = Mutated(m, store.episodes)]

\* the store is what running a and then b leaves
RanInOrder(a, b) ==
    /\ watchedMovies = After(b, After(a, RaceStart)).movies
    /\ watched = After(b, After(a, RaceStart)).episodes

\* C30: no update to the watch history is lost under concurrency: when two
\* mutations run with their reads and writes interleaved, the stored
\* collections afterwards are what running them one after the other leaves
C30_NoLostUpdate ==
    (\A t \in Tasks : tasks[t].pc = "done") =>
        \/ RanInOrder(tasks[1].mutation, tasks[2].mutation)
        \/ RanInOrder(tasks[2].mutation, tasks[1].mutation)

====
